---- MODULE Spec2Model ----
(***************************************************************************)
(* Model of the Legal-Tabular extraction core:                             *)
(*   backend/src/services/field_extractor.py  (FieldExtractor)             *)
(* Strings are sequences of one-character strings, so that strip, lower,   *)
(* split, substring tests and the regular expressions of the source are    *)
(* computed character by character.  Python's None, missing dictionary     *)
(* keys, numbers and strings are tagged values (see "Python values").      *)
(***************************************************************************)
EXTENDS Integers, Sequences, FiniteSets, TLC

(***************************************************************************)
(* Characters and the str methods the source calls                         *)
(***************************************************************************)
UpperLetters ==
  <<"A","B","C","D","E","F","G","H","I","J","K","L","M",
    "N","O","P","Q","R","S","T","U","V","W","X","Y","Z">>

LowerLetters ==
  <<"a","b","c","d","e","f","g","h","i","j","k","l","m",
    "n","o","p","q","r","s","t","u","v","w","x","y","z">>

SeqToSet(s) == { s[i] : i \in 1..Len(s) }

UpperSet == SeqToSet(UpperLetters)

LowerSet == SeqToSet(LowerLetters)

Letters == UpperSet \cup LowerSet

Digits == {"0","1","2","3","4","5","6","7","8","9"}

\* str.isspace / regex \s (ASCII)
Whitespace == {" ", "\n", "\t", "\r"}

LowerMap ==
  [c \in UpperSet |-> LowerLetters[CHOOSE i \in 1..Len(UpperLetters) : UpperLetters[i] = c]]

UpperMap ==
  [c \in LowerSet |-> UpperLetters[CHOOSE i \in 1..Len(LowerLetters) : LowerLetters[i] = c]]

LowerChar(c) == IF c \in UpperSet THEN LowerMap[c] ELSE c

UpperChar(c) == IF c \in LowerSet THEN UpperMap[c] ELSE c

\* str.lower()
Lower(s) == [i \in 1..Len(s) |-> LowerChar(s[i])]

\* the least and the greatest element of a non-empty finite set of integers
MinOf(S) == CHOOSE x \in S : \A y \in S : x <= y

MaxOf(S) == CHOOSE x \in S : \A y \in S : y <= x

\* str.strip(): from the first to the last character that is no whitespace
StripTo(s, keep) == IF keep = {} THEN <<>> ELSE SubSeq(s, MinOf(keep), MaxOf(keep))

Strip(s) == StripTo(s, { i \in 1..Len(s) : s[i] \notin Whitespace })

\* the positions where a whitespace-delimited token starts, and where the
\* token starting at i ends
TokenStarts(s) ==
  { i \in 1..Len(s) : s[i] \notin Whitespace /\ (i = 1 \/ s[i - 1] \in Whitespace) }

TokenEnd(s, i) ==
  MinOf({ j \in i..Len(s) : j = Len(s) \/ s[j + 1] \in Whitespace })

\* the elements of a finite set of integers, ascending
RECURSIVE Ascending(_)
Ascending(S) == IF S = {} THEN <<>> ELSE <<MinOf(S)>> \o Ascending(S \ {MinOf(S)})

\* str.split(): the whitespace-delimited tokens, in order
SplitAt(s, starts) ==
  [k \in 1..Len(starts) |-> SubSeq(s, starts[k], TokenEnd(s, starts[k]))]

Split(s) == SplitAt(s, Ascending(TokenStarts(s)))

\* the set of the tokens of l
Tokens(l) == { SubSeq(l, i, TokenEnd(l, i)) : i \in TokenStarts(l) }

\* set(s.lower().split())
TokenSet(s) == Tokens(Lower(s))

\* needle in hay (substring test)
Contains(hay, needle) ==
  \E i \in 1..(Len(hay) - Len(needle) + 1) :
    SubSeq(hay, i, i + Len(needle) - 1) = needle

\* s[:n]
Prefix(s, n) == SubSeq(s, 1, IF n < Len(s) THEN n ELSE Len(s))

(***************************************************************************)
(* Regular expressions (module re): a backtracking matcher with Python's   *)
(* priorities (alternatives left to right, greedy before short, lazy the   *)
(* other way round), over the constructs the source's patterns use.        *)
(* A node is a record; every node has every field, so that nodes compare.  *)
(***************************************************************************)
Unbounded == -1

Ch(S) == [k |-> "ch", cs |-> S, sub |-> <<>>, lo |-> 0, hi |-> 0, lazy |-> FALSE, g |-> 0]

Cat(ns) == [k |-> "cat", cs |-> {}, sub |-> ns, lo |-> 0, hi |-> 0, lazy |-> FALSE, g |-> 0]

Alt(ns) == [k |-> "alt", cs |-> {}, sub |-> ns, lo |-> 0, hi |-> 0, lazy |-> FALSE, g |-> 0]

Rep(n, lo, hi) == [k |-> "rep", cs |-> {}, sub |-> <<n>>, lo |-> lo, hi |-> hi, lazy |-> FALSE, g |-> 0]

LazyRep(n, lo, hi) == [k |-> "rep", cs |-> {}, sub |-> <<n>>, lo |-> lo, hi |-> hi, lazy |-> TRUE, g |-> 0]

Grp(g, n) == [k |-> "grp", cs |-> {}, sub |-> <<n>>, lo |-> 0, hi |-> 0, lazy |-> FALSE, g |-> g]

GrpOpen(g) == [k |-> "open", cs |-> {}, sub |-> <<>>, lo |-> 0, hi |-> 0, lazy |-> FALSE, g |-> g]

GrpClose(g) == [k |-> "close", cs |-> {}, sub |-> <<>>, lo |-> 0, hi |-> 0, lazy |-> FALSE, g |-> g]

\* a literal string (what re.escape(s) matches)
Lit(s) == Cat([i \in 1..Len(s) |-> Ch({s[i]})])

Opt(n) == Rep(n, 0, 1)

Plus(n) == Rep(n, 1, Unbounded)

Star(n) == Rep(n, 0, Unbounded)

MaxGroups == 3

NoCaps == [g \in 1..MaxGroups |-> [s |-> 0, e |-> 0]]

NoMatch == [ok |-> FALSE, s |-> 0, e |-> 0, caps |-> NoCaps]

\* one character against a class; ic is re.IGNORECASE
ChMatches(cs, c, ic) ==
  \/ c \in cs
  \/ ic /\ (LowerChar(c) \in cs \/ UpperChar(c) \in cs)

Dec(hi) == IF hi = Unbounded THEN Unbounded ELSE hi - 1

\* how many characters from position i on are in the class, at most hi
RunUpTo(i, last, misses) ==
  IF last < i THEN 0
  ELSE IF misses = {} THEN last - i + 1
  ELSE MinOf(misses) - i

LastOfRun(text, i, hi) ==
  IF hi = Unbounded \/ i + hi - 1 > Len(text) THEN Len(text) ELSE i + hi - 1

RunLength(cs, text, i, hi, ic) ==
  RunUpTo(i, LastOfRun(text, i, hi),
          { j \in i..LastOfRun(text, i, hi) : ~ChMatches(cs, text[j], ic) })

\* a if it matched, else b
FirstOk(a, b) == IF a.ok THEN a ELSE b

\* tries is a set of [c, r]: the match r of what follows a repetition that
\* took c characters.  Greedy takes the longest that matches, lazy the shortest.
PickOk(oks, lazy) ==
  IF oks = {} THEN NoMatch
  ELSE IF lazy THEN (CHOOSE x \in oks : \A y \in oks : x.c <= y.c).r
  ELSE (CHOOSE x \in oks : \A y \in oks : y.c <= x.c).r

PickCount(tries, lazy) == PickOk({ x \in tries : x.r.ok }, lazy)

\* Match the nodes of todo, in order, from position i of text (1-based, the
\* next character to read); the result's e is the position after the match.
\* A repetition of a character class takes the first count, in its order of
\* preference, after which the rest matches; any other repetition unfolds
\* one round at a time.
RECURSIVE MatchK(_, _, _, _, _)
RECURSIVE MatchAlt(_, _, _, _, _, _, _)
MatchK(todo, text, i, caps, ic) ==
  IF todo = <<>>
  THEN [ok |-> TRUE, s |-> 0, e |-> i, caps |-> caps]
  ELSE
    LET n == Head(todo)
        rest == Tail(todo)
    IN CASE n.k = "ch" ->
              IF i <= Len(text) /\ ChMatches(n.cs, text[i], ic)
              THEN MatchK(rest, text, i + 1, caps, ic)
              ELSE NoMatch
         [] n.k = "cat" -> MatchK(n.sub \o rest, text, i, caps, ic)
         [] n.k = "alt" -> MatchAlt(n.sub, 1, rest, text, i, caps, ic)
         [] n.k = "grp" ->
              MatchK(<<GrpOpen(n.g), n.sub[1], GrpClose(n.g)>> \o rest, text, i, caps, ic)
         [] n.k = "open" ->
              MatchK(rest, text, i, [caps EXCEPT ![n.g].s = i], ic)
         [] n.k = "close" ->
              MatchK(rest, text, i, [caps EXCEPT ![n.g].e = i], ic)
         [] n.k = "rep" /\ n.sub[1].k = "ch" ->
              PickCount({ [c |-> c, r |-> MatchK(rest, text, i + c, caps, ic)] :
                            c \in n.lo..RunLength(n.sub[1].cs, text, i, n.hi, ic) },
                        n.lazy)
         [] n.k = "rep" /\ n.sub[1].k # "ch" ->
              IF n.lo > 0
              THEN MatchK(<<n.sub[1], [n EXCEPT !.lo = n.lo - 1, !.hi = Dec(n.hi)]>> \o rest,
                          text, i, caps, ic)
              ELSE IF n.hi = 0
              THEN MatchK(rest, text, i, caps, ic)
              ELSE IF n.lazy
              THEN FirstOk(MatchK(rest, text, i, caps, ic),
                           MatchK(<<n.sub[1], [n EXCEPT !.hi = Dec(n.hi)]>> \o rest,
                                  text, i, caps, ic))
              ELSE FirstOk(MatchK(<<n.sub[1], [n EXCEPT !.hi = Dec(n.hi)]>> \o rest,
                                  text, i, caps, ic),
                           MatchK(rest, text, i, caps, ic))

MatchAlt(alts, j, rest, text, i, caps, ic) ==
  IF j > Len(alts)
  THEN NoMatch
  ELSE FirstOk(MatchK(<<alts[j]>> \o rest, text, i, caps, ic),
               MatchAlt(alts, j + 1, rest, text, i, caps, ic))

\* the match that starts leftmost, with its start recorded
Leftmost(oks) ==
  IF oks = {} THEN NoMatch
  ELSE [(CHOOSE x \in oks : \A y \in oks : x.c <= y.c).r
          EXCEPT !.s = MinOf({ x.c : x \in oks })]

\* re.search / the first match of re.finditer
Search(node, text, ic) ==
  Leftmost({ x \in { [c |-> i, r |-> MatchK(<<node>>, text, i, NoCaps, ic)] :
                       i \in 1..(Len(text) + 1) } : x.r.ok })

\* re.match: at the start only
MatchAtStart(node, text, ic) ==
  Leftmost({ x \in { [c |-> 1, r |-> MatchK(<<node>>, text, 1, NoCaps, ic)] } : x.r.ok })

\* m.group(0) and m.group(g)
Group0(text, m) == SubSeq(text, m.s, m.e - 1)

GroupN(text, m, g) == SubSeq(text, m.caps[g].s, m.caps[g].e - 1)

(***************************************************************************)
(* Python values: None, str, numbers and other JSON values, tagged.        *)
(* Numbers that are confidences are in hundredths (0.9 is 90).             *)
(***************************************************************************)
PyNone == [t |-> "none", s |-> <<>>, n |-> 0]

PyStr(s) == [t |-> "str", s |-> s, n |-> 0]

PyNum(n) == [t |-> "num", s |-> <<>>, n |-> n]

\* a JSON array or object used where a scalar is expected (non-empty)
PyList == [t |-> "list", s |-> <<>>, n |-> 0]

\* bool(v)
Truthy(v) ==
  CASE v.t = "none" -> FALSE
    [] v.t = "str" -> v.s # <<>>
    [] v.t = "num" -> v.n # 0
    [] OTHER -> TRUE

IsStr(v) == v.t = "str"

\* a or b
PyOr(a, b) == IF Truthy(a) THEN a ELSE b

TypeTEXT == <<"T","E","X","T">>

TypeDATE == <<"D","A","T","E">>

TypeCURRENCY == <<"C","U","R","R","E","N","C","Y">>

TypeBOOLEAN == <<"B","O","O","L","E","A","N">>

TypeENTITY == <<"E","N","T","I","T","Y">>

(***************************************************************************)
(* FieldExtractor._get_patterns_for_field                                  *)
(***************************************************************************)
Pattern(re, ngroups, boost) == [re |-> re, ngroups |-> ngroups, boost |-> boost]

MonthNames ==
  <<Lit(<<"J","a","n","u","a","r","y">>),
       Lit(<<"F","e","b","r","u","a","r","y">>),
       Lit(<<"M","a","r","c","h">>),
       Lit(<<"A","p","r","i","l">>),
       Lit(<<"M","a","y">>),
       Lit(<<"J","u","n","e">>),
       Lit(<<"J","u","l","y">>),
       Lit(<<"A","u","g","u","s","t">>),
       Lit(<<"S","e","p","t","e","m","b","e","r">>),
       Lit(<<"O","c","t","o","b","e","r">>),
       Lit(<<"N","o","v","e","m","b","e","r">>),
       Lit(<<"D","e","c","e","m","b","e","r">>)>>

\* [A-Za-z\s&.,]
PartyClass == Letters \cup Whitespace \cup {"&", ".", ","}

\* [A-Za-z0-9\s,./\-]
TermClass == Letters \cup Digits \cup Whitespace \cup {",", ".", "/", "-"}

\* [A-Za-z0-9\s,\-$().%]
ClauseClass == Letters \cup Digits \cup Whitespace \cup {",", "-", "$", "(", ")", ".", "%"}

\* \d{1,2}/\d{1,2}/\d{4} and \d{4}-\d{2}-\d{2}
SlashDate == Cat(<<Rep(Ch(Digits), 1, 2), Ch({"/"}), Rep(Ch(Digits), 1, 2), Ch({"/"}),
                   Rep(Ch(Digits), 4, 4)>>)

IsoDate == Cat(<<Rep(Ch(Digits), 4, 4), Ch({"-"}), Rep(Ch(Digits), 2, 2), Ch({"-"}),
                 Rep(Ch(Digits), 2, 2)>>)

\* [\d,]+\.?\d*
Amount == Cat(<<Plus(Ch(Digits \cup {","})), Opt(Ch({"."})), Star(Ch(Digits))>>)

DatePatterns ==
  << Pattern(Grp(1, SlashDate), 1, 30),
     Pattern(Grp(1, IsoDate), 1, 30),
     Pattern(Cat(<<Grp(1, Alt(MonthNames)), Plus(Ch(Whitespace)), Rep(Ch(Digits), 1, 2),
                   Opt(Ch({","})), Plus(Ch(Whitespace)), Rep(Ch(Digits), 4, 4)>>), 1, 40) >>

PartyPatterns ==
  << Pattern(Cat(<<Alt(<<Lit(<<"B","e","t","w","e","e","n">>), Lit(<<"B","E","T","W","E","E","N">>), Lit(<<"b","e","t","w","e","e","n">>)>>),
                   Plus(Ch(Whitespace)),
                   Grp(1, Cat(<<Ch(UpperSet), LazyRep(Ch(PartyClass), 1, Unbounded)>>)),
                   Plus(Ch(Whitespace)),
                   Alt(<<Lit(<<"a","n","d">>), Lit(<<"A","N","D">>)>>)>>), 1, 30),
     Pattern(Cat(<<Alt(<<Lit(<<"P","a","r","t","y">>), Lit(<<"P","A","R","T","Y">>)>>), Ch({":"}), Star(Ch(Whitespace)),
                   Grp(1, Cat(<<Ch(UpperSet), LazyRep(Ch(PartyClass), 1, Unbounded)>>)),
                   Alt(<<Ch({"\n"}), Ch({";"})>>)>>), 1, 40) >>

EffectivePatterns ==
  << Pattern(Cat(<<Alt(<<Lit(<<"e","f","f","e","c","t","i","v","e">>), Lit(<<"E","f","f","e","c","t","i","v","e">>), Lit(<<"E","F","F","E","C","T","I","V","E">>)>>),
                   Opt(Cat(<<Plus(Ch(Whitespace)), Lit(<<"d","a","t","e">>)>>)),
                   Plus(Ch({":"} \cup Whitespace)),
                   Grp(1, LazyRep(Ch(TermClass), 1, Unbounded)),
                   Alt(<<Ch({",", ";"}), Lit(<<"a","n","d">>), Lit(<<"o","n">>)>>)>>), 1, 30),
     Pattern(Cat(<<Alt(<<Lit(<<"t","e","r","m">>), Lit(<<"T","e","r","m">>), Lit(<<"T","E","R","M">>)>>),
                   Plus(Ch({":"} \cup Whitespace)),
                   Grp(1, LazyRep(Ch(TermClass), 1, Unbounded)),
                   Alt(<<Ch({",", ";"}), Lit(<<"a","n","d">>), Ch({"\n"})>>)>>), 1, 30) >>

CurrencyPatterns ==
  << Pattern(Cat(<<Ch({"$"}), Amount>>), 0, 40),
     Pattern(Cat(<<Grp(1, Alt(<<Lit(<<"U","S","D">>), Lit(<<"E","U","R">>), Lit(<<"G","B","P">>)>>)),
                   Star(Ch(Whitespace)), Amount>>), 1, 30) >>

LiabilityPatterns ==
  << Pattern(Cat(<<Alt(<<Lit(<<"l","i","a","b","i","l","i","t","y">>), Lit(<<"L","i","a","b","i","l","i","t","y">>), Lit(<<"L","I","A","B","L","E">>)>>),
                   Plus(Ch({":"} \cup Whitespace)),
                   Grp(1, LazyRep(Ch(ClauseClass), 1, Unbounded)),
                   Alt(<<Ch({".", ";"}), Lit(<<"a","n","d">>), Lit(<<"a","s">>)>>)>>), 1, 30) >>

\* (?:<re.escape(field_name)>)[:\s]+([A-Za-z0-9\s,\-$().%]+?)(?:[.;]|and)
GenericPattern(field_name) ==
  Pattern(Cat(<<Lit(field_name), Plus(Ch({":"} \cup Whitespace)),
                Grp(1, LazyRep(Ch(ClauseClass), 1, Unbounded)),
                Alt(<<Ch({".", ";"}), Lit(<<"a","n","d">>)>>)>>), 1, 20)

\* a dispatch that tests the currency category before the effective/term one
get_patterns_currency_first(field_name, field_type) ==
  LET field_name_lower == Lower(field_name)
      has(w) == Contains(field_name_lower, w)
      patterns ==
        IF has(<<"d","a","t","e">>) \/ field_type = PyStr(TypeDATE)
        THEN DatePatterns
        ELSE IF has(<<"p","a","r","t","y">>) \/ has(<<"p","a","r","t","i","e","s">>)
        THEN PartyPatterns
        ELSE IF has(<<"c","u","r","r","e","n","c","y">>) \/ has(<<"a","m","o","u","n","t">>) \/ field_type = PyStr(TypeCURRENCY)
        THEN CurrencyPatterns
        ELSE IF has(<<"e","f","f","e","c","t","i","v","e">>) \/ has(<<"t","e","r","m">>)
        THEN EffectivePatterns
        ELSE IF has(<<"l","i","a","b","l","e">>) \/ has(<<"l","i","a","b","i","l","i","t","y">>)
        THEN LiabilityPatterns
        ELSE <<>>
  IN Append(patterns, GenericPattern(field_name))

\* field_name is a str here (a name that is not a str has no lower(): see
\* extract_with_heuristics); field_type is any value.
get_patterns_for_field(field_name, field_type) ==
  LET field_name_lower == Lower(field_name)
      has(w) == Contains(field_name_lower, w)
      patterns ==
        IF has(<<"d","a","t","e">>) \/ field_type = PyStr(TypeDATE)
        THEN DatePatterns
        ELSE IF has(<<"p","a","r","t","y">>) \/ has(<<"p","a","r","t","i","e","s">>)
        THEN PartyPatterns
        ELSE IF has(<<"e","f","f","e","c","t","i","v","e">>) \/ has(<<"t","e","r","m">>)
        THEN EffectivePatterns
        ELSE IF has(<<"c","u","r","r","e","n","c","y">>) \/ has(<<"a","m","o","u","n","t">>) \/ field_type = PyStr(TypeCURRENCY)
        THEN CurrencyPatterns
        ELSE IF has(<<"l","i","a","b","l","e">>) \/ has(<<"l","i","a","b","i","l","i","t","y">>)
        THEN LiabilityPatterns
        ELSE <<>>
  IN Append(patterns, GenericPattern(field_name))

(***************************************************************************)
(* Results of a computation that may raise: [raised, exc, val]             *)
(***************************************************************************)
Returns(v) == [raised |-> FALSE, exc |-> "", val |-> v]

Raises(exc) == [raised |-> TRUE, exc |-> exc, val |-> PyNone]

(***************************************************************************)
(* FieldExtractor._extract_with_heuristics                                 *)
(***************************************************************************)
\* the raw result of a strategy; confidence in hundredths
RawResult(value, raw_text, confidence) ==
  [value |-> value, raw_text |-> raw_text, confidence |-> confidence]

\* a strategy that reports "nothing found" as an empty string
EmptyResult == RawResult(PyStr(<<>>), PyNone, 0)

NullResult == RawResult(PyNone, PyNone, 0)

ContextWindow == 100

BaseConfidence == 60

FullConfidence == 100

Min(a, b) == IF a < b THEN a ELSE b

Max(a, b) == IF a > b THEN a ELSE b

\* the body of the loop over a pattern's matches: the first match returns
HeuristicHit(document_text, p, m) ==
  LET extracted_value == IF p.ngroups > 0 THEN GroupN(document_text, m, 1)
                                          ELSE Group0(document_text, m)
      start == Max(0, (m.s - 1) - ContextWindow)
      end == Min(Len(document_text), (m.e - 1) + ContextWindow)
      context == SubSeq(document_text, start + 1, end)
      confidence == Min(FullConfidence, BaseConfidence + p.boost)
  IN RawResult(PyStr(Strip(extracted_value)), PyStr(Strip(context)), confidence)

\* a scan that takes the pattern whose match starts leftmost in the text
LeftmostPattern(document_text, patterns, j) ==
  CHOOSE k \in j..Len(patterns) :
    /\ Search(patterns[k].re, document_text, TRUE).ok
    /\ \A l \in j..Len(patterns) :
         Search(patterns[l].re, document_text, TRUE).ok =>
           Search(patterns[k].re, document_text, TRUE).s <= Search(patterns[l].re, document_text, TRUE).s

HeuristicScanLeftmost(document_text, patterns, j) ==
  IF \A k \in j..Len(patterns) : ~Search(patterns[k].re, document_text, TRUE).ok
  THEN NullResult
  ELSE HeuristicHit(document_text, patterns[LeftmostPattern(document_text, patterns, j)], Search(patterns[LeftmostPattern(document_text, patterns, j)].re, document_text, TRUE))

\* the loop over the patterns: the first pattern with a match returns
RECURSIVE HeuristicScan(_, _, _)
RECURSIVE HeuristicStep(_, _, _, _)
HeuristicStep(document_text, patterns, j, m) ==
  IF m.ok
  THEN HeuristicHit(document_text, patterns[j], m)
  ELSE HeuristicScan(document_text, patterns, j + 1)

HeuristicScan(document_text, patterns, j) ==
  IF j > Len(patterns)
  THEN NullResult
  ELSE HeuristicStep(document_text, patterns, j,
                     Search(patterns[j].re, document_text, TRUE))

\* document_text, field_name and field_type are Python values: a field_name
\* that is no str has no lower() (AttributeError), a document_text that is
\* no str is refused by re.finditer (TypeError).
extract_with_heuristics(document_text, field_name, field_type) ==
  IF ~IsStr(field_name)
  THEN Raises("AttributeError")
  ELSE IF ~IsStr(document_text)
  THEN Raises("TypeError")
  ELSE Returns(HeuristicScan(document_text.s,
                             get_patterns_for_field(field_name.s, field_type), 1))

(***************************************************************************)
(* Scores: exact fractions in lowest terms (the source computes floats)    *)
(***************************************************************************)
RECURSIVE GCD(_, _)
GCD(a, b) == IF b = 0 THEN a ELSE GCD(b, a % b)

Reduce(n, d, g) == [n |-> n \div g, d |-> d \div g]

Frac(n, d) == Reduce(n, d, GCD(n, d))

FracZero == [n |-> 0, d |-> 1]

FracOne == [n |-> 1, d |-> 1]

FracLess(a, b) == a.n * b.d < b.n * a.d

FracLeq(a, b) == a.n * b.d <= b.n * a.d

\* min(1.0, a + 0.3)
FracMin(a, b) == IF FracLess(b, a) THEN b ELSE a

Boosted(a) == FracMin(FracOne, Frac(10 * a.n + 3 * a.d, 10 * a.d))

\* str(i) for i >= 0
DigitChars == <<"0","1","2","3","4","5","6","7","8","9">>

RECURSIVE Str(_)
Str(i) == IF i < 10 THEN <<DigitChars[i + 1]>>
          ELSE Append(Str(i \div 10), DigitChars[(i % 10) + 1])

(***************************************************************************)
(* FieldExtractor._find_citations                                          *)
(* A chunk is [isdict, text, page_number, section]; a key that is absent   *)
(* holds Missing.  A chunk that is no dict has no get(), and a text that   *)
(* is no str has no lower(): both raise AttributeError.                    *)
(***************************************************************************)
Missing == [t |-> "missing", s |-> <<>>, n |-> 0]

\* d.get(key, default)
Get(v, default) == IF v.t = "missing" THEN default ELSE v

Chunk(text, page_number, section) ==
  [isdict |-> TRUE, text |-> text, page_number |-> page_number, section |-> section]

NotADict == [isdict |-> FALSE, text |-> Missing, page_number |-> Missing, section |-> Missing]

CitationTextMax == 500

\* s[:k] of Python, k of either sign
SliceTo(s, k) ==
  IF k >= 0 THEN Prefix(s, k)
  ELSE IF Len(s) + k > 0 THEN SubSeq(s, 1, Len(s) + k) ELSE <<>>

\* the score of one chunk: Jaccard similarity of the token sets, plus the
\* boost when the lowercased query is a substring of the lowercased chunk
Ratio(intersection, union) ==
  IF union > 0 THEN Frac(intersection, union) ELSE FracZero

Jaccard(query_tokens, chunk_tokens) ==
  Ratio(Cardinality(query_tokens \cap chunk_tokens),
        Cardinality(query_tokens \cup chunk_tokens))

BoostIf(inchunk, similarity) == IF inchunk THEN Boosted(similarity) ELSE similarity

Similarity(query, chunk_text) ==
  BoostIf(Contains(Lower(chunk_text), Lower(query)),
          Jaccard(TokenSet(query), TokenSet(chunk_text)))

ScoredChunk(query, chunk, i) ==
  LET chunk_text == Get(chunk.text, PyStr(<<>>)).s
  IN [text |-> chunk_text,
      similarity |-> Similarity(query, chunk_text),
      page |-> Get(chunk.page_number, PyNum(1)),
      section |-> Get(chunk.section, PyStr(<<"M","a","i","n">>)),
      chunk_id |-> Str(i - 1)]

\* a sort that puts a chunk before the earlier chunks of the same similarity
RECURSIVE InsertDescUnstable(_, _)
InsertDescUnstable(sorted, x) ==
  IF sorted = <<>>
  THEN <<x>>
  ELSE IF FracLeq(Head(sorted).similarity, x.similarity)
       THEN <<x>> \o sorted
       ELSE <<Head(sorted)>> \o InsertDescUnstable(Tail(sorted), x)

\* list.sort(key=similarity, reverse=True): stable, so chunks of equal
\* similarity keep their order.  x goes after every element not below it.
RECURSIVE InsertDesc(_, _)
InsertDesc(sorted, x) ==
  IF sorted = <<>>
  THEN <<x>>
  ELSE IF FracLess(Head(sorted).similarity, x.similarity)
       THEN <<x>> \o sorted
       ELSE <<Head(sorted)>> \o InsertDesc(Tail(sorted), x)

RECURSIVE SortDesc(_, _)
SortDesc(items, n) ==
  IF n = 0 THEN <<>> ELSE InsertDesc(SortDesc(items, n - 1), items[n])

\* a citation that carries the whole text of its chunk
CitationUntruncated(chunk) ==
  [citation_text |-> chunk.text,
   page_number |-> chunk.page,
   section_title |-> chunk.section,
   relevance_score |-> chunk.similarity,
   chunk_id |-> chunk.chunk_id]

Citation(chunk) ==
  [citation_text |-> Prefix(chunk.text, CitationTextMax),
   page_number |-> chunk.page,
   section_title |-> chunk.section,
   relevance_score |-> chunk.similarity,
   chunk_id |-> chunk.chunk_id]

\* the loop without its test of the similarity
TakeAll(chunks) == [k \in 1..Len(chunks) |-> Citation(chunks[k])]

\* for chunk in scored_chunks[:top_k]: if chunk['similarity'] > 0.0: append
RECURSIVE TakePositive(_)
TakePositive(chunks) ==
  IF chunks = <<>>
  THEN <<>>
  ELSE IF FracLess(FracZero, Head(chunks).similarity)
       THEN <<Citation(Head(chunks))>> \o TakePositive(Tail(chunks))
       ELSE TakePositive(Tail(chunks))

ChunkRaises(chunk) == ~chunk.isdict \/ ~IsStr(Get(chunk.text, PyStr(<<>>)))

find_citations(query_text, document_chunks, top_k) ==
  IF ~Truthy(query_text)
  THEN Returns(<<>>)
  ELSE IF ~IsStr(query_text)
  THEN Raises("AttributeError")
  ELSE IF \E i \in 1..Len(document_chunks) : ChunkRaises(document_chunks[i])
  THEN Raises("AttributeError")
  ELSE Returns(TakePositive(SliceTo(
         SortDesc([i \in 1..Len(document_chunks) |->
                     ScoredChunk(query_text.s, document_chunks[i], i)],
                  Len(document_chunks)),
         top_k)))

(***************************************************************************)
(* FieldExtractor._normalize_value                                         *)
(* Line 313 of the source closes the f-string of the first date normalizer *)
(* with ' instead of "; the model reads it with the closing quote the      *)
(* lambda needs, f"{m.group(3)}-{m.group(1):0>2}-{m.group(2):0>2}".        *)
(***************************************************************************)
\* (\d{1,2})/(\d{1,2})/(\d{4})
NormSlashDate ==
  Cat(<<Grp(1, Rep(Ch(Digits), 1, 2)), Ch({"/"}), Grp(2, Rep(Ch(Digits), 1, 2)), Ch({"/"}),
        Grp(3, Rep(Ch(Digits), 4, 4))>>)

\* (\d{4})-(\d{2})-(\d{2})
NormIsoDate ==
  Cat(<<Grp(1, Rep(Ch(Digits), 4, 4)), Ch({"-"}), Grp(2, Rep(Ch(Digits), 2, 2)), Ch({"-"}),
        Grp(3, Rep(Ch(Digits), 2, 2))>>)

\* \$?([\d,]+\.?\d*)
NormAmount == Cat(<<Opt(Ch({"$"})), Grp(1, Amount)>>)

\* format(s, "0>2")
Pad2(s) == IF Len(s) >= 2 THEN s ELSE IF Len(s) = 1 THEN <<"0">> \o s ELSE <<"0", "0">>

\* s.replace(',', '')
RECURSIVE DropCommas(_)
DropCommas(s) ==
  IF s = <<>> THEN <<>>
  ELSE IF Head(s) = "," THEN DropCommas(Tail(s))
  ELSE <<Head(s)>> \o DropCommas(Tail(s))

\* str.capitalize()
Capitalize(w) ==
  [i \in 1..Len(w) |-> IF i = 1 THEN UpperChar(w[i]) ELSE LowerChar(w[i])]

\* ' '.join(words)
RECURSIVE Join(_)
Join(words) ==
  IF words = <<>> THEN <<>>
  ELSE IF Len(words) = 1 THEN words[1]
  ELSE words[1] \o <<" ">> \o Join(Tail(words))

AffirmativeWords == {<<"y","e","s">>, <<"t","r","u","e">>, <<"a","g","r","e","e","d">>, <<"c","o","n","f","i","r","m","e","d">>}

NegativeWords == {<<"n","o">>, <<"f","a","l","s","e">>, <<"d","e","n","i","e","d">>, <<"r","e","j","e","c","t","e","d">>}

\* the loop over date_patterns: m1 and m2 are the searches of the two patterns
DateFrom(value, m1, m2) ==
  IF m1.ok
  THEN GroupN(value, m1, 3) \o <<"-">> \o Pad2(GroupN(value, m1, 1)) \o <<"-">>
         \o Pad2(GroupN(value, m1, 2))
  ELSE IF m2.ok THEN Group0(value, m2)
  ELSE value

NormalizeDate(value) ==
  DateFrom(value, Search(NormSlashDate, value, FALSE), Search(NormIsoDate, value, FALSE))

CurrencyFrom(value, m) ==
  IF m.ok
     THEN <<"U","S","D">> \o <<" ">> \o DropCommas(GroupN(value, m, 1))
     ELSE value

NormalizeCurrency(value) == CurrencyFrom(value, Search(NormAmount, value, FALSE))

\* the two tests of the BOOLEAN branch in the other order
NormalizeBooleanNegativeFirst(value) ==
  LET value_lower == Lower(value)
  IN IF \E w \in NegativeWords : Contains(value_lower, w) THEN <<"f","a","l","s","e">>
     ELSE IF \E w \in AffirmativeWords : Contains(value_lower, w) THEN <<"t","r","u","e">>
     ELSE value

NormalizeBoolean(value) ==
  LET value_lower == Lower(value)
  IN IF \E w \in AffirmativeWords : Contains(value_lower, w) THEN <<"t","r","u","e">>
     ELSE IF \E w \in NegativeWords : Contains(value_lower, w) THEN <<"f","a","l","s","e">>
     ELSE value

CapitalizeAll(words) == [i \in 1..Len(words) |-> Capitalize(words[i])]

NormalizeEntity(value) == Join(CapitalizeAll(Split(value)))

\* the branches on field_type, on the stripped value
NormalizeStripped(v, field_type) ==
  CASE field_type = PyStr(TypeDATE) -> NormalizeDate(v)
    [] field_type = PyStr(TypeCURRENCY) -> NormalizeCurrency(v)
    [] field_type = PyStr(TypeBOOLEAN) -> NormalizeBoolean(v)
    [] field_type = PyStr(TypeENTITY) -> NormalizeEntity(v)
    [] OTHER -> v

\* value and field_type are Python values; a truthy value that is no str
\* has no strip() (AttributeError)
normalize_value(value, field_type) ==
  IF ~Truthy(value)
  THEN Returns(PyNone)
  ELSE IF ~IsStr(value)
  THEN Raises("AttributeError")
  ELSE Returns(PyStr(NormalizeStripped(Strip(value.s), field_type)))

(***************************************************************************)
(* FieldExtractor._validate_extraction: the multiplier, in tenths          *)
(***************************************************************************)
validate_extraction(extracted_value, normalized_value, field_type) ==
  IF ~Truthy(extracted_value) THEN 0
  ELSE IF ~Truthy(normalized_value) THEN 5
  ELSE IF field_type = PyStr(TypeDATE)
  THEN IF MatchAtStart(IsoDate, normalized_value.s, FALSE).ok THEN 10 ELSE 6
  ELSE IF field_type = PyStr(TypeCURRENCY)
  THEN IF Contains(normalized_value.s, <<"U","S","D">>)
            /\ Search(Amount, normalized_value.s, FALSE).ok
       THEN 10 ELSE 6
  ELSE IF field_type = PyStr(TypeBOOLEAN)
  THEN IF normalized_value.s \in {<<"t","r","u","e">>, <<"f","a","l","s","e">>} THEN 10 ELSE 5
  ELSE 8

(***************************************************************************)
(* FieldExtractor._extract_with_llm                                        *)
(* What llm_client.complete(prompt) does is the backend's choice:          *)
(*   kind "raises"    complete() raises                                    *)
(*   kind "invalid"   the response is no JSON                              *)
(*   kind "nonobject" the response is JSON but no object (array, string,   *)
(*                    number, null)                                        *)
(*   kind "object"    a JSON object; value, raw_text and confidence are    *)
(*                    its members (Missing when the key is absent), the    *)
(*                    confidence number in hundredths                      *)
(***************************************************************************)
LLMFails(kind) ==
  [kind |-> kind, value |-> Missing, raw_text |-> Missing, confidence |-> Missing]

LLMObject(value, raw_text, confidence) ==
  [kind |-> "object", value |-> value, raw_text |-> raw_text, confidence |-> confidence]

\* document_text[:5000] of the prompt is outside the try: a document_text
\* that is no str raises TypeError to the caller.  Inside the try every
\* exception gives the null result: complete() raising, json.loads
\* failing, result.get on a non-object, min(1.0, c) on a c that is no number.
extract_with_llm(document_text, response) ==
  IF ~IsStr(document_text)
  THEN Raises("TypeError")
  ELSE IF response.kind # "object"
  THEN Returns(NullResult)
  ELSE IF Get(response.confidence, PyNum(0)).t # "num"
  THEN Returns(NullResult)
  ELSE Returns(RawResult(Get(response.value, PyNone),
                         Get(response.raw_text, PyNone),
                         Min(FullConfidence, Get(response.confidence, PyNum(0)).n)))

(***************************************************************************)
(* FieldExtractor._extract_single_field                                    *)
(* confidence_score is in thousandths: hundredths (the strategy's          *)
(* confidence) times tenths (the validation multiplier).                   *)
(***************************************************************************)
TopK == 3

FullScore == 1000

\* the record of the except branch
ErrorRecord(field_name, field_type, exc) ==
  [field_name |-> field_name,
   field_type |-> field_type,
   extracted_value |-> PyNone,
   raw_text |-> PyNone,
   normalized_value |-> PyNone,
   confidence_score |-> 0,
   citations |-> <<>>,
   method |-> "",
   error |-> exc]

\* the record of the try branch
SuccessRecord(raw, citations, normalized_value, validation_score, field_name, field_type, method) ==
  [field_name |-> field_name,
   field_type |-> field_type,
   extracted_value |-> raw.value,
   raw_text |-> raw.raw_text,
   normalized_value |-> normalized_value,
   confidence_score |-> Min(FullScore, raw.confidence * validation_score),
   citations |-> citations,
   method |-> method,
   error |-> ""]

\* the try branch once the citations and the normalized value are computed:
\* either of them may have raised
Assemble(raw, citations, normalized_value, field_name, field_type, method) ==
  IF citations.raised
  THEN ErrorRecord(field_name, field_type, citations.exc)
  ELSE IF normalized_value.raised
  THEN ErrorRecord(field_name, field_type, normalized_value.exc)
  ELSE SuccessRecord(raw, citations.val, normalized_value.val,
                     validate_extraction(raw.value, normalized_value.val, field_type),
                     field_name, field_type, method)

\* the try branch from the strategy's raw result on
AssembleRecord(raw, document_chunks, field_name, field_type, method) ==
  Assemble(raw,
           find_citations(PyOr(raw.raw_text, raw.value), document_chunks, TopK),
           normalize_value(raw.value, field_type),
           field_name, field_type, method)

\* a strategy's exception taken for "nothing found"
SwallowStrategyError(extraction_result, document_chunks, field_name, field_type, method) ==
  AssembleRecord(IF extraction_result.raised THEN NullResult ELSE extraction_result.val,
                 document_chunks, field_name, field_type, method)

\* the strategy raised, or returned its raw result
FromStrategy(extraction_result, document_chunks, field_name, field_type, method) ==
  IF extraction_result.raised
  THEN ErrorRecord(field_name, field_type, extraction_result.exc)
  ELSE AssembleRecord(extraction_result.val, document_chunks, field_name, field_type,
                      method)

\* configured: whether self.llm_client is set; response: what the backend
\* does when it is called for this field
extract_single_field(configured, response, document_text, document_chunks, field_name, field_type) ==
  FromStrategy(IF configured
               THEN extract_with_llm(document_text, response)
               ELSE extract_with_heuristics(document_text, field_name, field_type),
               document_chunks, field_name, field_type,
               IF configured THEN "llm" ELSE "heuristic")

(***************************************************************************)
(* Inputs of the model                                                     *)
(***************************************************************************)
\* A field definition is a mapping with the keys name and field_type (either
\* may be absent), or something that is no mapping.  The description only
\* goes into the prompt of the backend.
FieldDef(name, field_type) == [ismapping |-> TRUE, name |-> name, field_type |-> field_type]

NotAMapping == [ismapping |-> FALSE, name |-> Missing, field_type |-> Missing]

AgreementText ==
  <<"T","h","i","s"," ","A","g","r","e","e","m","e","n","t"," ","i","s"," ",
    "e","f","f","e","c","t","i","v","e"," ","J","a","n","u","a","r","y"," ",
    "1","5",","," ","2","0","2","4"," ","b","e","t","w","e","e","n",".",".",
    ".">>

TermsText ==
  <<"T","e","r","m",":"," ","5"," ","y","e","a","r","s",";"," ","T","o","t",
    "a","l"," ","A","m","o","u","n","t",":"," ","$","1",",","2","3","4",".",
    "5","0",".">>

PartyText ==
  <<"P","a","r","t","y",":"," ","A","c","m","e"," ","C","o","r","p",";",
    "\n","L","i","a","b","i","l","i","t","y",":"," ","n","o","n","e",".">>

FullDate == <<"J","a","n","u","a","r","y"," ","1","5",","," ","2","0","2","4">>

EffectiveDateName == <<"E","f","f","e","c","t","i","v","e"," ","D","a","t","e">>

TermName == <<"T","e","r","m">>

TotalAmountName == <<"T","o","t","a","l"," ","A","m","o","u","n","t">>

GoverningLawName == <<"G","o","v","e","r","n","i","n","g"," ","L","a","w">>

\* a field type outside TEXT, DATE, CURRENCY, BOOLEAN, ENTITY
NumberType == <<"N","U","M","B","E","R">>

SupportedTypes == {TypeTEXT, TypeDATE, TypeCURRENCY, TypeBOOLEAN, TypeENTITY}

\* a document: its text and its chunks
Document(text, chunks) == [text |-> text, chunks |-> chunks]

Documents ==
  { Document(PyStr(AgreementText),
             << Chunk(PyStr(AgreementText), PyNum(1), PyStr(<<"M","a","i","n">>)),
                Chunk(PyStr(<<"e","f","f","e","c","t","i","v","e"," ","J","a","n","u","a","r","y">>), PyNum(2), Missing),
                Chunk(PyStr(<<"J","a","n","u","a","r","y"," ","t","e","r","m">>), Missing, PyStr(<<"D","a","t","e","s">>)),
                Chunk(PyStr(<<"b","e","t","w","e","e","n"," ","p","a","r","t","i","e","s">>), PyNum(3), Missing) >>),
    Document(PyStr(TermsText),
             << Chunk(PyStr(<<"T","e","r","m",":"," ","5"," ","y","e","a","r","s",";">>), PyNum(1), Missing),
                Chunk(PyStr(<<"T","o","t","a","l"," ","A","m","o","u","n","t",":"," ","$","1",",","2",
  "3","4",".","5","0",".">>), PyNum(1), Missing) >>),
    Document(PyStr(PartyText),
             << Chunk(PyNone, PyNum(1), Missing), NotADict >>),
    Document(PyNone, <<>>) }

FieldDefList ==
  << FieldDef(PyStr(EffectiveDateName), PyStr(TypeDATE)),
     FieldDef(PyStr(TermName), PyStr(NumberType)),
     FieldDef(PyStr(TotalAmountName), PyStr(TypeCURRENCY)),
     FieldDef(PyStr(GoverningLawName), PyStr(TypeTEXT)),
     FieldDef(PyNone, Missing),
     FieldDef(Missing, PyStr(TypeDATE)),
     NotAMapping >>

FieldDefs == SeqToSet(FieldDefList)

\* what a backend may do on one call
ResponseList ==
  << LLMFails("raises"),
     LLMFails("invalid"),
     LLMFails("nonobject"),
     LLMObject(PyStr(FullDate), PyStr(<<"e","f","f","e","c","t","i","v","e"," ","J","a","n","u","a","r","y"," ",
  "1","5",","," ","2","0","2","4">>), PyNum(90)),
     LLMObject(PyNone, PyStr(TermName), PyNum(90)),
     LLMObject(PyStr(<<"5"," ","y","e","a","r","s">>), PyNone, PyNum(0 - 50)),
     LLMObject(PyStr(<<"$","1",",","2","3","4",".","5","0">>), Missing, PyNum(150)),
     LLMObject(PyStr(<<"A","c","m","e">>), Missing, Missing),
     LLMObject(PyNum(42), PyNone, PyNum(90)),
     LLMObject(PyNum(42), PyStr(TermName), PyNum(90)),
     LLMObject(PyStr(<<"A","c","m","e">>), PyStr(TermName), PyStr(<<"h","i","g","h">>)) >>

\* The extractor's llm_client: none, or a backend.  What a backend does on a
\* call is decided by the prompt, that is by the field asked for; the
\* backends of the model differ in which response they give to which field.
NoBackend == [configured |-> FALSE, script |-> 0]

Backend(k) == [configured |-> TRUE, script |-> k]

Backends == { Backend(k) : k \in 0..(Len(ResponseList) - 1) }

FieldIndex(field_def) == CHOOSE i \in 1..Len(FieldDefList) : FieldDefList[i] = field_def

\* self.llm_client.complete(prompt)
Complete(client, field_def) ==
  ResponseList[((client.script + FieldIndex(field_def)) % Len(ResponseList)) + 1]

\* no backend is configured: nothing is called
NoCall == LLMFails("nocall")

MaxFields == 2

\* the sequences of at most n elements of S
Extend(shorter, S) == shorter \cup { Append(s, x) : s \in shorter, x \in S }

RECURSIVE SeqsUpTo(_, _)
SeqsUpTo(S, n) ==
  IF n = 0
  THEN { <<>> }
  ELSE Extend(SeqsUpTo(S, n - 1), S)

\* the inputs of _find_citations when it is called on its own
Queries ==
  { PyNone, PyStr(<<>>), PyStr(TermName), PyStr(<<"J","a","n","u","a","r","y"," ","t","e","r","m">>), PyStr(<<"E","f","f","e","c","t","i","v","e">>),
    PyNum(5) }

\* a chunk text longer than a citation_text may be: "effective January "
\* followed by one long word
LongLength == CitationTextMax + 10

LongText ==
  [i \in 1..LongLength |->
     IF i <= 18
     THEN <<"e","f","f","e","c","t","i","v","e"," ","J","a","n","u","a","r","y"," ">>[i]
     ELSE "x"]

ChunkPool ==
  { Chunk(PyStr(<<"T","e","r","m">>), PyNum(1), Missing),
    Chunk(PyStr(<<"t","e","r","m"," ","s","h","e","e","t">>), PyNum(2), Missing),
    Chunk(PyStr(<<"J","a","n","u","a","r","y"," ","t","e","r","m">>), Missing, PyStr(<<"D","a","t","e","s">>)),
    Chunk(PyStr(<<"e","f","f","e","c","t","i","v","e"," ","J","a","n","u","a","r","y">>), PyNum(3), Missing),
    Chunk(PyStr(<<"b","e","t","w","e","e","n"," ","p","a","r","t","i","e","s">>), PyNum(4), Missing),
    NotADict }

\* chunk lists with a text that is longer than a citation_text
LongChunkPool ==
  { Chunk(PyStr(<<"T","e","r","m">>), PyNum(1), Missing),
    Chunk(PyStr(LongText), PyNum(3), Missing),
    Chunk(PyStr(<<"b","e","t","w","e","e","n"," ","p","a","r","t","i","e","s">>), PyNum(4), Missing) }

MaxChunks == 3

MaxTopK == 3

(***************************************************************************)
(* State                                                                   *)
(***************************************************************************)
VARIABLES
  llm_client,         \* the extractor's backend (NoBackend when there is none)
  document_text,      \* argument of extract_fields
  document_chunks,    \* argument of extract_fields and of _find_citations
  field_definitions,  \* argument of extract_fields
  results,            \* the list extract_fields builds
  responses,          \* what the backend did on each call so far
  pattern_field,      \* field_name and field_type of _extract_with_heuristics
  field_patterns,     \* return value of _get_patterns_for_field
  heuristic,          \* return value of _extract_with_heuristics
  query_text,         \* argument of _find_citations
  top_k,              \* argument of _find_citations
  citations,          \* the return value of _find_citations
  extracted_value,    \* argument of _normalize_value and of _validate_extraction
  field_type,         \* argument of _normalize_value and of _validate_extraction
  normalized_value,   \* return value of _normalize_value, argument of _validate_extraction
  renormalized,       \* return value of _normalize_value applied to its own result
  validation_score,   \* return value of _validate_extraction, in tenths
  documents,          \* what list_project_documents returns
  extractions,        \* what list_extractions_by_project returns
  table,              \* return value of generate_comparison_table
  csv,                \* the rows export_table_to_csv hands to its writer
  ai_value,           \* argument of _calculate_match_score
  human_value,        \* argument of _calculate_match_score
  match_score,        \* return value of _calculate_match_score, a fraction
  evaluations,        \* the stored evaluation results, in the order of their creation
  report,             \* return value of generate_evaluation_report
  doc_status,         \* the status of each stored document
  stored_citations,   \* the stored citations, in the order of their creation
  review_states,      \* the stored review states, in the order of their creation
  tasks,              \* the stored tasks, in the order of their creation
  job,                \* the background job that is scheduled or running
  budget,             \* how many storage failures and review requests may still happen
  pc                  \* where the running operation is, "returned" or "raised" at its end

vars == <<llm_client, document_text, document_chunks, field_definitions, results,
          responses, pattern_field, field_patterns, heuristic, query_text, top_k, citations, extracted_value, field_type,
          normalized_value, renormalized, validation_score, documents, extractions,
          table, csv, ai_value, human_value, match_score, evaluations, report,
          doc_status, stored_citations, review_states, tasks, job, budget, pc>>

heuristicVars == <<pattern_field, field_patterns, heuristic>>

extractVars == <<llm_client, document_text, field_definitions, results, responses, heuristicVars>>

citeVars == <<query_text, top_k, citations>>

normVars == <<extracted_value, field_type, normalized_value, renormalized, validation_score>>

\* the variables of the operations outside FieldExtractor's extraction and
\* citation ranking
serviceVars == <<evaluations, report, doc_status, stored_citations, review_states, tasks, job, budget>>

laterVars == <<normVars, documents, extractions, table, csv, ai_value, human_value, match_score, serviceVars>>

compareVars == <<documents, extractions, table, csv>>

scoreVars == <<ai_value, human_value, match_score>>

\* the variables of an operation that is not running
HeuristicIdle ==
  /\ pattern_field = PyNone
  /\ field_patterns = <<>>
  /\ heuristic = PyNone

ExtractIdle ==
  /\ HeuristicIdle
  /\ llm_client = NoBackend
  /\ document_text = PyNone
  /\ field_definitions = <<>>
  /\ results = <<>>
  /\ responses = <<>>

CiteIdle ==
  /\ query_text = PyNone
  /\ top_k = 0
  /\ citations = <<>>

NormIdle ==
  /\ extracted_value = PyNone
  /\ field_type = PyNone
  /\ normalized_value = PyNone
  /\ renormalized = PyNone
  /\ validation_score = 0

CompareIdle ==
  /\ documents = <<>>
  /\ extractions = <<>>
  /\ table = PyNone
  /\ csv = <<>>

ScoreIdle ==
  /\ ai_value = PyNone
  /\ human_value = PyNone
  /\ match_score = FracZero

\* no background job
NoJob == [phase |-> "none", task |-> 0, kind |-> "", target |-> PyNone, template |-> <<>>, position |-> 0, raised |-> FALSE, error |-> ""]

PipelineIdle ==
  /\ doc_status = <<>>
  /\ stored_citations = <<>>
  /\ review_states = <<>>
  /\ tasks = <<>>
  /\ job = NoJob
  /\ budget = [faults |-> 0, reviews |-> 0]

pipelineVars == <<doc_status, stored_citations, review_states, tasks, job, budget>>

ServiceIdle ==
  /\ evaluations = <<>>
  /\ report = PyNone
  /\ PipelineIdle

LaterIdle == NormIdle /\ CompareIdle /\ ScoreIdle /\ ServiceIdle

(***************************************************************************)
(* FieldExtractor.extract_fields                                           *)
(***************************************************************************)
InitExtract ==
  /\ llm_client \in {NoBackend} \cup Backends
  /\ \E d \in Documents : document_text = d.text /\ document_chunks = d.chunks
  /\ field_definitions \in SeqsUpTo(FieldDefs, MaxFields)
  /\ results = <<>>
  /\ responses = <<>>
  /\ HeuristicIdle
  /\ pc = "loop"
  /\ CiteIdle
  /\ LaterIdle

\* field_def.get('name', ''), field_def.get('field_type', 'TEXT')
NameOf(field_def) == Get(field_def.name, PyStr(<<>>))

TypeOf(field_def) == Get(field_def.field_type, PyStr(TypeTEXT))

ResponseTo(client, field_def) ==
  IF client.configured THEN Complete(client, field_def) ELSE NoCall

\* the body of the loop, for a field definition that is a mapping
ExtractOne(client, text, chunks, field_def) ==
  extract_single_field(client.configured, ResponseTo(client, field_def), text, chunks,
                       NameOf(field_def), TypeOf(field_def))

\* results.insert(0, extraction)
PrependResult(rs, extraction) == <<extraction>> \o rs

\* results.append(extraction)
AppendResult(rs, extraction) == Append(rs, extraction)

\* one round of the loop on a field definition that is a mapping
ExtractField ==
  /\ pc = "loop"
  /\ Len(results) < Len(field_definitions)
  /\ field_definitions[Len(results) + 1].ismapping
  /\ results' = AppendResult(results,
                             ExtractOne(llm_client, document_text, document_chunks,
                                        field_definitions[Len(results) + 1]))
  /\ responses' = Append(responses,
                         ResponseTo(llm_client, field_definitions[Len(results) + 1]))
  /\ UNCHANGED <<llm_client, document_text, document_chunks, field_definitions, pc>>
  /\ UNCHANGED heuristicVars
  /\ UNCHANGED citeVars
  /\ UNCHANGED laterVars

\* field_def.get on something that is no mapping raises AttributeError
\* outside every try: the call ends without a return value
FieldDefRaises ==
  /\ pc = "loop"
  /\ Len(results) < Len(field_definitions)
  /\ ~field_definitions[Len(results) + 1].ismapping
  /\ pc' = "raised"
  /\ UNCHANGED <<document_chunks>>
  /\ UNCHANGED extractVars
  /\ UNCHANGED citeVars
  /\ UNCHANGED laterVars

\* return results
Return ==
  /\ pc = "loop"
  /\ Len(results) = Len(field_definitions)
  /\ pc' = "returned"
  /\ UNCHANGED <<document_chunks>>
  /\ UNCHANGED extractVars
  /\ UNCHANGED citeVars
  /\ UNCHANGED laterVars

NextExtract == ExtractField \/ FieldDefRaises \/ Return

SpecExtract == InitExtract /\ [][NextExtract]_vars

\* extract_fields as a function of its arguments: the records of the first n
\* field definitions (all of them mappings)
RECURSIVE extract_fields(_, _, _, _, _)
extract_fields(client, text, chunks, defs, n) ==
  IF n = 0
  THEN <<>>
  ELSE AppendResult(extract_fields(client, text, chunks, defs, n - 1),
                    ExtractOne(client, text, chunks, defs[n]))

(***************************************************************************)
(* FieldExtractor._find_citations called on its own                        *)
(***************************************************************************)
InitCite ==
  /\ query_text \in Queries
  /\ document_chunks \in SeqsUpTo(ChunkPool, MaxChunks)
  /\ top_k \in 0..MaxTopK
  /\ citations = <<>>
  /\ pc = "call"
  /\ ExtractIdle
  /\ LaterIdle

FindCitationsReturns ==
  /\ pc = "call"
  /\ ~find_citations(query_text, document_chunks, top_k).raised
  /\ citations' = find_citations(query_text, document_chunks, top_k).val
  /\ pc' = "returned"
  /\ UNCHANGED <<query_text, top_k, document_chunks>>
  /\ UNCHANGED extractVars
  /\ UNCHANGED laterVars

FindCitationsRaises ==
  /\ pc = "call"
  /\ find_citations(query_text, document_chunks, top_k).raised
  /\ pc' = "raised"
  /\ UNCHANGED <<document_chunks>>
  /\ UNCHANGED citeVars
  /\ UNCHANGED extractVars
  /\ UNCHANGED laterVars

\* the same call on chunk lists with long texts
InitLongCite ==
  /\ query_text \in Queries
  /\ document_chunks \in SeqsUpTo(LongChunkPool, MaxChunks)
  /\ top_k \in 0..MaxTopK
  /\ citations = <<>>
  /\ pc = "call"
  /\ ExtractIdle
  /\ LaterIdle

NextCite == FindCitationsReturns \/ FindCitationsRaises

SpecCite == InitCite /\ [][NextCite]_vars

SpecLongCite == InitLongCite /\ [][NextCite]_vars

(***************************************************************************)
(* FieldExtractor._normalize_value and _validate_extraction called on      *)
(* their own                                                               *)
(***************************************************************************)
\* the field types a caller may pass: the five the source knows and one more
FieldTypes ==
  { PyStr(TypeTEXT), PyStr(TypeDATE), PyStr(TypeCURRENCY), PyStr(TypeBOOLEAN),
    PyStr(TypeENTITY), PyStr(NumberType) }

SlashDateText == <<"0","1","/","1","5","/","2","0","2","4">>

IsoDateText == <<"2","0","2","4","-","0","1","-","1","5">>

AmountText == <<"$","1",",","2","3","4",".","5","0">>

PlainAmountText == <<"1","2","3","4",".","5","0">>

YesConfirmedText == <<"Y","e","s",","," ","c","o","n","f","i","r","m","e","d">>

NotAgreedText == <<"n","o","t"," ","a","g","r","e","e","d">>

BlankText == <<" "," "," ">>

\* the values _normalize_value is called on
NormalizeInputs ==
  { PyNone, PyStr(<<>>), PyStr(BlankText), PyNum(42),
    PyStr(SlashDateText), PyStr(<<"1","/","5","/","2","0","2","4">>), PyStr(IsoDateText),
    PyStr(<<" ","S","i","g","n","e","d"," ","2","0","2","4","-","0","1","-","1","5","."," ">>), PyStr(<<"d","u","e"," ","3","/","7","/","2","0","2","5"," ","o","r"," ","2","0","2","4","-","1","2","-","3","1">>),
    PyStr(FullDate), PyStr(<<" ","n","e","x","t"," ","w","e","e","k"," ">>),
    PyStr(AmountText), PyStr(<<"1",",","0","0","0">>), PyStr(<<"T","o","t","a","l",":"," ","5"," ","u","n","i","t","s">>),
    PyStr(<<"T","e","n"," ","d","o","l","l","a","r","s",","," ","n","e","t">>), PyStr(<<"n","o"," ","a","m","o","u","n","t">>), PyStr(<<" ","$","7"," ">>),
    PyStr(YesConfirmedText), PyStr(NotAgreedText), PyStr(<<"N","o">>), PyStr(<<"D","E","N","I","E","D">>),
    PyStr(<<"m","a","y","b","e">>), PyStr(<<" ","T","R","U","E"," ">>), PyStr(<<"a","c","m","e"," ","c","o","r","p"," ","L","L","C">>) }

InitNormalize ==
  /\ extracted_value \in NormalizeInputs
  /\ field_type \in FieldTypes
  /\ normalized_value = PyNone
  /\ renormalized = PyNone
  /\ validation_score = 0
  /\ pc = "normalize"
  /\ ExtractIdle
  /\ CiteIdle
  /\ CompareIdle
  /\ ScoreIdle
  /\ ServiceIdle
  /\ document_chunks = <<>>

\* _normalize_value(extracted_value, field_type) returns
NormalizeReturns ==
  /\ pc = "normalize"
  /\ ~normalize_value(extracted_value, field_type).raised
  /\ normalized_value' = normalize_value(extracted_value, field_type).val
  /\ pc' = "normalized"
  /\ UNCHANGED <<extracted_value, field_type, renormalized, validation_score>>
  /\ UNCHANGED <<extractVars, citeVars, document_chunks, compareVars, scoreVars, serviceVars>>

\* value.strip() on a value that is no str
NormalizeRaises ==
  /\ pc = "normalize"
  /\ normalize_value(extracted_value, field_type).raised
  /\ pc' = "raised"
  /\ UNCHANGED normVars
  /\ UNCHANGED <<extractVars, citeVars, document_chunks, compareVars, scoreVars, serviceVars>>

\* _normalize_value(normalized_value, field_type): the result normalized again
NormalizeAgain ==
  /\ pc = "normalized"
  /\ renormalized' = normalize_value(normalized_value, field_type).val
  /\ pc' = "renormalized"
  /\ UNCHANGED <<extracted_value, field_type, normalized_value, validation_score>>
  /\ UNCHANGED <<extractVars, citeVars, document_chunks, compareVars, scoreVars, serviceVars>>

NextNormalize == NormalizeReturns \/ NormalizeRaises \/ NormalizeAgain

SpecNormalize == InitNormalize /\ [][NextNormalize]_vars

\* the normalized values _validate_extraction is called on
ValidateInputs ==
  { PyNone, PyStr(<<>>), PyStr(IsoDateText), PyStr(<<"2","0","2","4","-","0","1","-","1","5","T","0","0",":","0","0">>),
    PyStr(<<"o","n"," ","2","0","2","4","-","0","1","-","1","5">>), PyStr(<<"J","a","n","u","a","r","y">>), PyStr(<<"U","S","D"," ","1","2","3","4",".","5","0">>), PyStr(<<"U","S","D"," ">>),
    PyStr(PlainAmountText), PyStr(<<"U","S","D",","," ","n","e","t">>), PyStr(<<"t","r","u","e">>), PyStr(<<"f","a","l","s","e">>),
    PyStr(<<"T","r","u","e">>), PyStr(<<"m","a","y","b","e">>), PyStr(<<"A","c","m","e"," ","C","o","r","p">>) }

InitValidate ==
  /\ extracted_value \in { PyNone, PyStr(<<>>), PyStr(FullDate) }
  /\ normalized_value \in ValidateInputs
  /\ field_type \in FieldTypes
  /\ renormalized = PyNone
  /\ validation_score = 0
  /\ pc = "validate"
  /\ ExtractIdle
  /\ CiteIdle
  /\ CompareIdle
  /\ ScoreIdle
  /\ ServiceIdle
  /\ document_chunks = <<>>

\* _validate_extraction(extracted_value, normalized_value, field_type)
Validate ==
  /\ pc = "validate"
  /\ validation_score' = validate_extraction(extracted_value, normalized_value, field_type)
  /\ pc' = "validated"
  /\ UNCHANGED <<extracted_value, field_type, normalized_value, renormalized>>
  /\ UNCHANGED <<extractVars, citeVars, document_chunks, compareVars, scoreVars, serviceVars>>

NextValidate == Validate

SpecValidate == InitValidate /\ [][NextValidate]_vars

(***************************************************************************)
(* ComparisonService.generate_comparison_table                             *)
(***************************************************************************)
\* {} : the dict without keys
EmptyDict == [k \in {} |-> PyNone]

\* d[k] = v
DictSetKeep(d, k, v) == [x \in DOMAIN d \cup {k} |-> IF x \in DOMAIN d THEN d[x] ELSE v]

DictSet(d, k, v) == [x \in DOMAIN d \cup {k} |-> IF x = k THEN v ELSE d[x]]

\* d.get(k, default)
DictGet(d, k, default) == IF k \in DOMAIN d THEN d[k] ELSE default

\* the cell of a (document, field) combination no extraction record covers
SentinelCell == [extracted_value |-> PyStr(<<"N","/","A">>), confidence_score |-> 0]

\* the cell kept of one extraction record
CellOf(extraction) == [id |-> extraction.id, extracted_value |-> extraction.extracted_value, normalized_value |-> extraction.normalized_value, confidence_score |-> extraction.confidence_score, status |-> extraction.status]

\* field_groups is a dict keyed by field_name; the model keeps its values in
\* insertion order.  The position of a key, 0 when it is no key
GroupIndex(field_groups, field_name) ==
  IF \E i \in 1..Len(field_groups) : field_groups[i].field_name = field_name
  THEN CHOOSE i \in 1..Len(field_groups) : field_groups[i].field_name = field_name
  ELSE 0

NewGroup(extraction) == [field_name |-> extraction.field_name, field_type |-> extraction.field_type, results |-> EmptyDict]

\* if field_name not in field_groups: field_groups[field_name] = {...}
WithGroupAlways(field_groups, extraction) == Append(field_groups, NewGroup(extraction))

WithGroup(field_groups, extraction) ==
  IF GroupIndex(field_groups, extraction.field_name) = 0
  THEN Append(field_groups, NewGroup(extraction))
  ELSE field_groups

\* field_groups[field_name]['results'][doc_id] = {...}
StoreCell(field_groups, extraction) ==
  [field_groups EXCEPT ![GroupIndex(field_groups, extraction.field_name)].results = DictSet(@, extraction.document_id, CellOf(extraction))]

\* one round of 'for extraction in extractions'
AddExtraction(field_groups, extraction) == StoreCell(WithGroup(field_groups, extraction), extraction)

\* field_groups after the first n extraction records
RECURSIVE GroupExtractions(_, _)
GroupExtractions(exts, n) ==
  IF n = 0 THEN <<>> ELSE AddExtraction(GroupExtractions(exts, n - 1), exts[n])

DocumentIds(docs) == { docs[i].id : i \in 1..Len(docs) }

\* one element of rows
RowOfResults(group, docs) == [field_name |-> group.field_name, field_type |-> group.field_type, document_results |-> group.results]

RowOf(group, docs) == [field_name |-> group.field_name, field_type |-> group.field_type, document_results |-> [d \in DocumentIds(docs) |-> DictGet(group.results, d, SentinelCell)]]

DocumentEntry(doc) == [id |-> doc.id, filename |-> doc.filename, file_type |-> doc.file_type]

\* the table returned when documents or extractions is empty: it has no
\* 'documents' key (has_documents tells whether the key is there)
EmptyTableCounted(docs) == [document_count |-> Len(docs), row_count |-> Len(docs), has_documents |-> FALSE, documents |-> <<>>, rows |-> <<>>]

EmptyTable(docs) == [document_count |-> Len(docs), row_count |-> 0, has_documents |-> FALSE, documents |-> <<>>, rows |-> <<>>]

TableOf(docs, field_groups) == [document_count |-> Len(docs), row_count |-> Len(field_groups), has_documents |-> TRUE, documents |-> [i \in 1..Len(docs) |-> DocumentEntry(docs[i])], rows |-> [i \in 1..Len(field_groups) |-> RowOf(field_groups[i], docs)]]

generate_comparison_table(docs, exts) ==
  IF docs = <<>> \/ exts = <<>>
  THEN EmptyTable(docs)
  ELSE TableOf(docs, GroupExtractions(exts, Len(exts)))

(***************************************************************************)
(* export_table_to_csv                                                     *)
(***************************************************************************)
\* table.get('documents', [])
TableDocuments(tbl) == IF tbl.has_documents THEN tbl.documents ELSE <<>>

Headers(tbl) == <<PyStr(<<"F","i","e","l","d"," ","N","a","m","e">>), PyStr(<<"F","i","e","l","d"," ","T","y","p","e">>)>> \o [i \in 1..Len(TableDocuments(tbl)) |-> PyStr(TableDocuments(tbl)[i].filename)]

\* result.get('extracted_value', 'N/A')
ValueOf(result) == IF "extracted_value" \in DOMAIN result THEN result.extracted_value ELSE PyStr(<<"N","/","A">>)

RowData(row, tbl) == <<PyStr(row.field_name), PyStr(row.field_type)>> \o [i \in 1..Len(TableDocuments(tbl)) |-> ValueOf(DictGet(row.document_results, TableDocuments(tbl)[i].id, EmptyDict))]

\* the field csv.writer writes for one value: None is written as the empty
\* string, a str as itself
CsvField(v) == IF v.t = "none" THEN <<>> ELSE v.s

\* writer.writerow(row)
WriteRow(row) == [i \in 1..Len(row) |-> CsvField(row[i])]

\* the rows of the export: the header row, then one row per row of the table
CsvRows(tbl) == <<WriteRow(Headers(tbl))>> \o [i \in 1..Len(tbl.rows) |-> WriteRow(RowData(tbl.rows[i], tbl))]

export_table_to_csv(docs, exts) == CsvRows(generate_comparison_table(docs, exts))

\* the documents and extraction records of a project
ProjectDocument(id, filename) == [id |-> id, filename |-> filename, file_type |-> <<"p","d","f">>]

DocumentPool == { ProjectDocument(<<"d","1">>, <<"a",".","p","d","f">>), ProjectDocument(<<"d","2">>, <<"b",".","p","d","f">>), ProjectDocument(<<"d","3">>, <<"c",".","p","d","f">>) }

MaxDocuments == 2

MaxExtractions == 3

Distinct(s) == \A i, j \in 1..Len(s) : s[i] = s[j] => i = j

\* list_project_documents: the rows of one table, each document once
DocumentLists == { s \in SeqsUpTo(DocumentPool, MaxDocuments) : Distinct(s) }

ExtractionRecord(field_name, ftype, document_id, value, confidence) == [id |-> 0, field_name |-> field_name, field_type |-> ftype, document_id |-> document_id, extracted_value |-> value, normalized_value |-> value, confidence_score |-> confidence, status |-> <<"e","x","t","r","a","c","t","e","d">>]

ExtractionPool ==
  { ExtractionRecord(<<"T","e","r","m">>, <<"T","E","X","T">>, <<"d","1">>, PyStr(<<"5"," ","y","e","a","r","s">>), 900),
    ExtractionRecord(<<"T","e","r","m">>, <<"T","E","X","T">>, <<"d","1">>, PyStr(<<"3"," ","y","e","a","r","s">>), 600),
    ExtractionRecord(<<"T","e","r","m">>, <<"T","E","X","T">>, <<"d","2">>, PyStr(<<"5"," ","y","e","a","r","s">>), 850),
    ExtractionRecord(<<"T","e","r","m">>, <<"T","E","X","T">>, <<"d","3">>, PyStr(<<"1"," ","y","e","a","r">>), 700),
    ExtractionRecord(<<"P","a","r","t","y">>, <<"E","N","T","I","T","Y">>, <<"d","1">>, PyStr(<<"A","c","m","e">>), 950),
    ExtractionRecord(<<"P","a","r","t","y">>, <<"E","N","T","I","T","Y">>, <<"d","2">>, PyNone, 0) }

\* every stored record has its own id: the model uses its position
WithIds(s) == [i \in 1..Len(s) |-> [s[i] EXCEPT !.id = i]]

ExtractionLists == { WithIds(s) : s \in SeqsUpTo(ExtractionPool, MaxExtractions) }

InitCompare ==
  /\ documents \in DocumentLists
  /\ extractions \in ExtractionLists
  /\ table = PyNone
  /\ csv = <<>>
  /\ pc = "request"
  /\ ExtractIdle
  /\ CiteIdle
  /\ NormIdle
  /\ ScoreIdle
  /\ ServiceIdle
  /\ document_chunks = <<>>

\* GET /projects/{id}/table
GetComparisonTable ==
  /\ pc = "request"
  /\ table' = generate_comparison_table(documents, extractions)
  /\ pc' = "generated"
  /\ UNCHANGED <<documents, extractions, csv>>
  /\ UNCHANGED <<extractVars, citeVars, document_chunks, normVars, scoreVars, serviceVars>>

\* POST /projects/{id}/table/export-csv, which builds the table itself
ExportTableToCsv ==
  /\ pc \in {"request", "generated"}
  /\ table' = generate_comparison_table(documents, extractions)
  /\ csv' = export_table_to_csv(documents, extractions)
  /\ pc' = "exported"
  /\ UNCHANGED <<documents, extractions>>
  /\ UNCHANGED <<extractVars, citeVars, document_chunks, normVars, scoreVars, serviceVars>>

NextCompare == GetComparisonTable \/ ExportTableToCsv

SpecCompare == InitCompare /\ [][NextCompare]_vars

(***************************************************************************)
(* EvaluationService._calculate_match_score                                *)
(* SequenceMatcher is modelled without its junk heuristic, which only      *)
(* touches sequences of 200 elements and more.                             *)
(***************************************************************************)
\* str(v)
PyStrOf(v) ==
  CASE v.t = "str" -> v.s
    [] v.t = "num" -> Str(v.n)
    [] OTHER -> <<"N","o","n","e">>

\* str(v).lower().strip()
ScoreNorm(v) == Strip(Lower(PyStrOf(v)))

\* how far a[i..ahi] and b[j..bhi] agree from their first elements on
CommonRun(a, b, i, j, ahi, bhi) ==
  MaxOf({ k \in 0..Min(ahi - i + 1, bhi - j + 1) : \A x \in 0..(k - 1) : a[i + x] = b[j + x] })

\* the length of the longest block a[alo..ahi] and b[blo..bhi] share
LongestLength(a, b, alo, ahi, blo, bhi) ==
  MaxOf({0} \cup { CommonRun(a, b, i, j, ahi, bhi) : i \in alo..ahi, j \in blo..bhi })

\* where the blocks of length k start
BlockStarts(a, b, alo, ahi, blo, bhi, k) ==
  { p \in (alo..ahi) \X (blo..bhi) : CommonRun(a, b, p[1], p[2], ahi, bhi) >= k }

\* the one that starts earliest in a and, among those, earliest in b
EarliestBlock(starts, k) ==
  IF k = 0 THEN [i |-> 0, j |-> 0, k |-> 0]
  ELSE [i |-> MinOf({ p[1] : p \in starts }), j |-> MinOf({ p[2] : p \in { q \in starts : q[1] = MinOf({ r[1] : r \in starts }) } }), k |-> k]

\* SequenceMatcher.find_longest_match(alo, ahi, blo, bhi), on positions from 1
\* with both ends included
FindLongestMatch(a, b, alo, ahi, blo, bhi, k) ==
  EarliestBlock(BlockStarts(a, b, alo, ahi, blo, bhi, k), k)

\* the sum of the sizes of get_matching_blocks(): the longest block, then the
\* same to its left and to its right
RECURSIVE MatchedIn(_, _, _, _, _, _)
MatchedAround(a, b, alo, ahi, blo, bhi, m) ==
  IF m.k = 0 THEN 0
  ELSE m.k + MatchedIn(a, b, alo, m.i - 1, blo, m.j - 1) + MatchedIn(a, b, m.i + m.k, ahi, m.j + m.k, bhi)

MatchedIn(a, b, alo, ahi, blo, bhi) ==
  IF alo > ahi \/ blo > bhi THEN 0
  ELSE MatchedAround(a, b, alo, ahi, blo, bhi, FindLongestMatch(a, b, alo, ahi, blo, bhi, LongestLength(a, b, alo, ahi, blo, bhi)))

\* SequenceMatcher(None, a, b).ratio()
SequenceRatio(a, b) ==
  IF Len(a) + Len(b) = 0 THEN FracOne
  ELSE Frac(2 * MatchedIn(a, b, 1, Len(a), 1, Len(b)), Len(a) + Len(b))

\* the score of two values that both hold something
NormScore(ai_norm, human_norm) ==
  IF ai_norm = human_norm THEN FracOne ELSE SequenceRatio(ai_norm, human_norm)

calculate_match_score(ai, human) ==
  IF ~Truthy(ai) \/ ~Truthy(human)
  THEN (IF ai # human THEN FracZero ELSE FracOne)
  ELSE NormScore(ScoreNorm(ai), ScoreNorm(human))

\* the values _calculate_match_score is called on
ScoreInputs ==
  { PyNone, PyStr(<<>>), PyStr(<<" ">>), PyStr(<<"A">>), PyStr(<<"a"," ">>), PyStr(<<"A","c","m","e"," ","C","o","r","p">>), PyStr(<<" ","a","c","m","e"," ","c","o","r","p">>),
    PyStr(<<"A","c","m","e"," ","I","n","c">>), PyStr(<<"5"," ","y","e","a","r","s">>), PyStr(<<"3"," ","y","e","a","r","s">>), PyStr(<<"a","b","x","c","d">>), PyStr(<<"a","b","c","d">>), PyStr(<<"b","c","d","e">>),
    PyStr(<<"t","i","d","e">>), PyStr(<<"d","i","e","t">>) }

InitScore ==
  /\ ai_value \in ScoreInputs
  /\ human_value \in ScoreInputs
  /\ match_score = FracZero
  /\ pc = "score"
  /\ ExtractIdle
  /\ CiteIdle
  /\ NormIdle
  /\ CompareIdle
  /\ ServiceIdle
  /\ document_chunks = <<>>

\* _calculate_match_score(ai_value, human_value)
CalculateMatchScore ==
  /\ pc = "score"
  /\ match_score' = calculate_match_score(ai_value, human_value)
  /\ pc' = "scored"
  /\ UNCHANGED <<ai_value, human_value>>
  /\ UNCHANGED <<extractVars, citeVars, document_chunks, normVars, compareVars, serviceVars>>

NextScore == CalculateMatchScore

SpecScore == InitScore /\ [][NextScore]_vars

(***************************************************************************)
(* EvaluationService.evaluate_extraction, generate_evaluation_report and   *)
(* DatabaseRepository.get_evaluation_metrics.  Scores are exact fractions. *)
(***************************************************************************)
\* the filters of list_extractions_by_project: each one is applied only when
\* its argument is truthy
Keeps(extraction, field_name, document_id) ==
  /\ Truthy(field_name) => extraction.field_name = field_name.s
  /\ Truthy(document_id) => extraction.document_id = document_id.s

list_extractions_by_project(exts, field_name, document_id) ==
  SelectSeq(exts, LAMBDA e : Keeps(e, field_name, document_id))

\* match_score > 0.8, as evaluate_extraction, generate_evaluation_report and
\* get_evaluation_metrics all write it
MatchThreshold == Frac(4, 5)

IsMatchInclusive(score) == FracLeq(MatchThreshold, score)

IsMatch(score) == FracLess(MatchThreshold, score)

\* extraction.normalized_value or extraction.extracted_value
AiValueOf(extraction) == PyOr(extraction.normalized_value, extraction.extracted_value)

\* the row create_evaluation stores
EvaluationRow(document_id, field_name, ai, human, score) == [document_id |-> document_id, field_name |-> field_name, ai_value |-> ai, human_value |-> human, match_score |-> score, normalized_match |-> IsMatch(score)]

\* the record evaluate_extraction scores: extractions[0]
ScoredRecord(found) == found[1]

Evaluated(evals, found, document_id, field_name, human) ==
  IF found = <<>>
  THEN evals
  ELSE Append(evals, EvaluationRow(document_id, field_name, AiValueOf(ScoredRecord(found)), human, calculate_match_score(AiValueOf(ScoredRecord(found)), human)))

\* the stored evaluations after evaluate_extraction; nothing is stored when
\* it returns {'status': 'extraction_not_found'}
evaluate_extraction(exts, evals, document_id, field_name, human) ==
  Evaluated(evals, list_extractions_by_project(exts, field_name, document_id), document_id, field_name, human)

FracAdd(a, b) == Frac(a.n * b.d + b.n * a.d, a.d * b.d)

\* sum(e.match_score for e in evaluations), over the first n of them
RECURSIVE SumOfScores(_, _)
SumOfScores(evals, n) ==
  IF n = 0 THEN FracZero ELSE FracAdd(SumOfScores(evals, n - 1), evals[n].match_score)

\* sum(1 for e in evaluations if e.match_score > 0.8)
MatchedCount(evals) == Cardinality({ i \in 1..Len(evals) : IsMatch(evals[i].match_score) })

ZeroMetrics == [total_fields |-> 0, matched_fields |-> 0, field_accuracy |-> FracZero, average_confidence |-> FracZero, coverage_percentage |-> FracZero]

MetricsOf(total, matched, sum) == [total_fields |-> total, matched_fields |-> matched, field_accuracy |-> Frac(matched, total), average_confidence |-> Frac(sum.n, sum.d * total), coverage_percentage |-> Frac(matched * 100, total)]

get_evaluation_metrics(evals) ==
  IF evals = <<>> THEN ZeroMetrics
  ELSE MetricsOf(Len(evals), MatchedCount(evals), SumOfScores(evals, Len(evals)))

\* field_results is a dict keyed by field_name, kept in insertion order
ResultIndex(field_results, field_name) ==
  IF \E i \in 1..Len(field_results) : field_results[i].field_name = field_name
  THEN CHOOSE i \in 1..Len(field_results) : field_results[i].field_name = field_name
  ELSE 0

WithResult(field_results, field_name) ==
  IF ResultIndex(field_results, field_name) = 0
  THEN Append(field_results, [field_name |-> field_name, total |-> 0, matched |-> 0, accuracy |-> FracZero])
  ELSE field_results

\* total += 1, and matched += 1 for a match
Counted(field_results, evaluation) ==
  [field_results EXCEPT ![ResultIndex(field_results, evaluation.field_name)] =
     [total |-> @.total + 1, matched |-> @.matched + (IF IsMatch(evaluation.match_score) THEN 1 ELSE 0), field_name |-> @.field_name, accuracy |-> @.accuracy]]

RECURSIVE FieldResults(_, _)
FieldResults(evals, n) ==
  IF n = 0 THEN <<>> ELSE Counted(WithResult(FieldResults(evals, n - 1), evals[n].field_name), evals[n])

\* the second loop: accuracy = matched / total if total > 0 else 0.0
WithAccuracy(field_results) ==
  [i \in 1..Len(field_results) |-> [field_results[i] EXCEPT !.accuracy = IF field_results[i].total > 0 THEN Frac(field_results[i].matched, field_results[i].total) ELSE FracZero]]

\* the report without its summary text and its timestamp
generate_evaluation_report(evals) == [metrics |-> get_evaluation_metrics(evals), field_results |-> WithAccuracy(FieldResults(evals, Len(evals)))]

\* the projects that are evaluated
EffectiveDateRecord == [id |-> 0, field_name |-> <<"E","f","f","e","c","t","i","v","e"," ","D","a","t","e">>, field_type |-> <<"D","A","T","E">>, document_id |-> <<"d","1">>, extracted_value |-> PyStr(<<"1","/","1","5","/","2","0","2","4">>), normalized_value |-> PyStr(<<"2","0","2","4","-","0","1","-","1","5">>), confidence_score |-> 900, status |-> <<"e","x","t","r","a","c","t","e","d">>]

EvaluatedProjects ==
  { [documents |-> <<>>, extractions |-> <<>>],
    [documents |-> <<ProjectDocument(<<"d","1">>, <<"a",".","p","d","f">>)>>, extractions |-> <<>>],
    [documents |-> <<ProjectDocument(<<"d","1">>, <<"a",".","p","d","f">>)>>, extractions |-> WithIds(<<EffectiveDateRecord>>)],
    [documents |-> <<ProjectDocument(<<"d","1">>, <<"a",".","p","d","f">>), ProjectDocument(<<"d","2">>, <<"b",".","p","d","f">>)>>, extractions |-> WithIds(<<EffectiveDateRecord, ExtractionRecord(<<"T","e","r","m">>, <<"T","E","X","T">>, <<"d","2">>, PyStr(<<"5"," ","y","e","a","r","s">>), 850)>>)] }

\* the items of an evaluation request
EvaluationItem(document_id, field_name, human) == [document_id |-> document_id, field_name |-> field_name, human_value |-> human]

EvaluationItems ==
  { EvaluationItem(PyStr(<<"d","1">>), PyStr(<<"E","f","f","e","c","t","i","v","e"," ","D","a","t","e">>), PyStr(<<"2","0","2","4","-","0","1","-","1","5">>)),
    EvaluationItem(PyStr(<<"d","1">>), PyStr(<<"E","f","f","e","c","t","i","v","e"," ","D","a","t","e">>), PyStr(<<"2","0","2","4","-","0","1","-","1","6">>)),
    EvaluationItem(PyStr(<<"d","1">>), PyStr(<<"E","f","f","e","c","t","i","v","e"," ","D","a","t","e">>), PyStr(<<"2","0","2","4","-","0","1","-","2","6">>)),
    EvaluationItem(PyStr(<<"d","1">>), PyStr(<<"E","f","f","e","c","t","i","v","e"," ","D","a","t","e">>), PyStr(<<"2","0","2","5","-","1","2","-","3","1">>)),
    EvaluationItem(PyStr(<<"d","1">>), PyStr(<<"E","f","f","e","c","t","i","v","e"," ","D","a","t","e">>), PyStr(<<"J","a","n","u","a","r","y"," ","1","5">>)),
    EvaluationItem(PyStr(<<"d","2">>), PyStr(<<"T","e","r","m">>), PyStr(<<"5"," ","Y","e","a","r","s">>)) }

MaxEvaluations == 4

InitEvaluate ==
  /\ \E project \in EvaluatedProjects :
       /\ documents = project.documents
       /\ extractions = project.extractions
  /\ table = PyNone
  /\ csv = <<>>
  /\ evaluations = <<>>
  /\ report = PyNone
  /\ PipelineIdle
  /\ pc = "request"
  /\ ExtractIdle
  /\ CiteIdle
  /\ NormIdle
  /\ ScoreIdle
  /\ document_chunks = <<>>

\* evaluate_extraction(project_id, document_id, field_name, human_value)
EvaluateExtraction ==
  /\ pc = "request"
  /\ Len(evaluations) < MaxEvaluations
  /\ \E item \in EvaluationItems :
       evaluations' = evaluate_extraction(extractions, evaluations, item.document_id, item.field_name, item.human_value)
  /\ UNCHANGED <<report, pc, pipelineVars>>
  /\ UNCHANGED <<extractVars, citeVars, document_chunks, normVars, compareVars, scoreVars>>

\* GET /projects/{id}/evaluation-report
GenerateEvaluationReport ==
  /\ pc \in {"request", "generated"}
  /\ report' = generate_evaluation_report(evaluations)
  /\ pc' = "reported"
  /\ UNCHANGED <<evaluations, pipelineVars>>
  /\ UNCHANGED <<extractVars, citeVars, document_chunks, normVars, compareVars, scoreVars>>

NextEvaluate == EvaluateExtraction \/ GenerateEvaluationReport \/ GetComparisonTable

SpecEvaluate == InitEvaluate /\ [][NextEvaluate]_vars

(***************************************************************************)
(* ExtractionService, ReviewService and the background jobs of app.py.     *)
(* The store is [extractions, citations, reviews, doc_status]; every       *)
(* create_* and update_* of the repository commits on its own, so a        *)
(* storage failure at one write leaves the earlier writes stored.  Status  *)
(* values are the member names of the enums of src/models/schema.py.       *)
(***************************************************************************)
\* the row create_extraction stores: its id is its position
StoredExtraction(id, document_id, result) == [id |-> id, field_name |-> result.field_name.s, field_type |-> result.field_type.s, document_id |-> document_id, extracted_value |-> result.extracted_value, normalized_value |-> result.normalized_value, confidence_score |-> result.confidence_score, status |-> "EXTRACTED"]

create_extraction(store, document_id, result) == [store EXCEPT !.extractions = Append(store.extractions, StoredExtraction(Len(store.extractions) + 1, document_id, result))]

\* create_citation(extraction_id=extraction.id, ...) for the record stored last
create_citation(store, document_id, citation) == [store EXCEPT !.citations = Append(store.citations, [extraction_id |-> Len(store.extractions), document_id |-> document_id, citation_text |-> citation.citation_text, page_number |-> citation.page_number, section_title |-> citation.section_title, relevance_score |-> citation.relevance_score])]

create_review_state(store, extraction_id, ai) == [store EXCEPT !.reviews = Append(store.reviews, [id |-> Len(store.reviews) + 1, extraction_id |-> extraction_id, ai_value |-> ai, status |-> "PENDING", manual_value |-> PyNone])]

update_document_status(store, document_id, status) ==
  IF document_id \in DOMAIN store.doc_status
  THEN [store EXCEPT !.doc_status = DictSet(store.doc_status, document_id, status)]
  ELSE store

\* the writes of extract_fields_for_document, in their order: for each result
\* its extraction record, its citations and its review state, and at the end
\* the document status
WritesOfResult(result, i) ==
  <<[op |-> "extraction", result |-> i, citation |-> 0]>>
    \o [c \in 1..Len(result.citations) |-> [op |-> "citation", result |-> i, citation |-> c]]
    \o <<[op |-> "review", result |-> i, citation |-> 0]>>

RECURSIVE WritesOfResults(_, _)
WritesOfResults(extraction_results, n) ==
  IF n = 0 THEN <<>>
  ELSE WritesOfResults(extraction_results, n - 1) \o WritesOfResult(extraction_results[n], n)

WritesOf(extraction_results) ==
  WritesOfResults(extraction_results, Len(extraction_results)) \o <<[op |-> "status", result |-> 0, citation |-> 0]>>

ApplyWrite(store, w, document_id, extraction_results) ==
  CASE w.op = "extraction" -> create_extraction(store, document_id, extraction_results[w.result])
    [] w.op = "citation" -> create_citation(store, document_id, extraction_results[w.result].citations[w.citation])
    [] w.op = "review" -> create_review_state(store, Len(store.extractions), store.extractions[Len(store.extractions)].extracted_value)
    [] OTHER -> update_document_status(store, document_id, "EXTRACTED")

\* the store after the first n writes
RECURSIVE ApplyWrites(_, _, _, _, _)
ApplyWrites(store, writes, n, document_id, extraction_results) ==
  IF n = 0 THEN store
  ELSE ApplyWrite(ApplyWrites(store, writes, n - 1, document_id, extraction_results), writes[n], document_id, extraction_results)

\* the stored content of a document and its chunk rows
StoredContent(text) == [content_text |-> PyStr(text), chunks |-> <<[text |-> PyStr(text), page_number |-> PyNum(1), section_title |-> PyNone]>>]

AmountDocumentText == <<"T","o","t","a","l"," ","A","m","o","u","n","t",":"," ","$","1",",","2","3","4",".","5","0",".">>

OtherAmountDocumentText == <<"T","o","t","a","l"," ","A","m","o","u","n","t",":"," ","$","9","9">>

StoredDocuments == [d \in {<<"d","1">>, <<"d","2">>} |-> IF d = <<"d","1">> THEN StoredContent(AmountDocumentText) ELSE StoredContent(OtherAmountDocumentText)]

\* chunks_data of extract_fields_for_document
ChunksData(chunks) == [i \in 1..Len(chunks) |-> Chunk(chunks[i].text, chunks[i].page_number, PyOr(chunks[i].section_title, PyStr(<<"M","a","i","n">>)))]

\* self.extractor.extract_fields(...): the service's extractor has no backend
ExtractionResults(document, template) == extract_fields(NoBackend, document.content_text, ChunksData(document.chunks), template, Len(template))

\* the outcome of storing the results when the write at position fault fails
\* (0: none fails)
Stored(store, document_id, extraction_results, writes, fault) ==
  IF fault = 0
  THEN [store |-> ApplyWrites(store, writes, Len(writes), document_id, extraction_results), raised |-> FALSE, error |-> "", stored |-> Len(extraction_results)]
  ELSE [store |-> ApplyWrites(store, writes, fault - 1, document_id, extraction_results), raised |-> TRUE, error |-> "storage failure", stored |-> 0]

StoreResults(store, document_id, extraction_results, fault) ==
  Stored(store, document_id, extraction_results, WritesOf(extraction_results), fault)

\* extract_fields_for_document(project_id, document_id, field_definitions)
extract_fields_for_document(store, document_id, template, fault) ==
  IF document_id \notin DOMAIN StoredDocuments
  THEN [store |-> store, raised |-> TRUE, error |-> "Document not found", stored |-> 0]
  ELSE StoreResults(store, document_id, ExtractionResults(StoredDocuments[document_id], template), fault)

\* how many writes a run on the document makes
WriteCount(document_id, template) ==
  IF document_id \notin DOMAIN StoredDocuments THEN 0
  ELSE Len(WritesOf(ExtractionResults(StoredDocuments[document_id], template)))

EmptyStore == [extractions |-> <<>>, citations |-> <<>>, reviews |-> <<>>, doc_status |-> [d \in DOMAIN StoredDocuments |-> "UPLOADED"]]

\* the field templates of the project: the type of the field is edited
\* between runs
Templates == { <<FieldDef(PyStr(TotalAmountName), PyStr(TypeTEXT))>>, <<FieldDef(PyStr(TotalAmountName), PyStr(TypeCURRENCY))>> }

\* list_pending_reviews and next(r for r in review_states if r.extraction_id
\* == extraction_id): the first PENDING review state of the extraction, 0
\* when there is none
PendingReview(reviews, extraction_id) ==
  IF \E i \in 1..Len(reviews) : reviews[i].status = "PENDING" /\ reviews[i].extraction_id = extraction_id
  THEN MinOf({ i \in 1..Len(reviews) : reviews[i].status = "PENDING" /\ reviews[i].extraction_id = extraction_id })
  ELSE 0

\* if not review_state: create_review_state(...)
WithReview(store, extraction_id) ==
  IF PendingReview(store.reviews, extraction_id) = 0
  THEN create_review_state(store, extraction_id, store.extractions[extraction_id].extracted_value)
  ELSE store

\* update_review_state(review_state.id, ...) and update_extraction(extraction_id, status=...)
Reviewed(store, extraction_id, status, manual) ==
  [store EXCEPT !.reviews[PendingReview(store.reviews, extraction_id)].status = status,
                !.reviews[PendingReview(store.reviews, extraction_id)].manual_value = manual,
                !.extractions[extraction_id].status = status]

\* update_extraction_review(extraction_id, status, manual_value); an unknown
\* extraction raises ValueError and changes nothing
update_extraction_review(store, extraction_id, status, manual) ==
  IF extraction_id \notin 1..Len(store.extractions)
  THEN store
  ELSE Reviewed(WithReview(store, extraction_id), extraction_id, status, manual)

\* the statuses a reviewer sets
ReviewStatuses == {"CONFIRMED", "REJECTED"}

create_task(stored, task_type) == Append(stored, [task_type |-> task_type, status |-> "QUEUED", error_message |-> "", has_result |-> FALSE])

update_task(stored, task_id, status, error_message, has_result) ==
  IF task_id \in 1..Len(stored)
  THEN [stored EXCEPT ![task_id] = [task_type |-> stored[task_id].task_type, status |-> status, error_message |-> error_message, has_result |-> has_result]]
  ELSE stored

\* the store the repository holds
Store == [extractions |-> extractions, citations |-> stored_citations, reviews |-> review_states, doc_status |-> doc_status]

SetStore(store) ==
  /\ extractions' = store.extractions
  /\ stored_citations' = store.citations
  /\ review_states' = store.reviews
  /\ doc_status' = store.doc_status

MaxRuns == 2

MaxFaults == 1

MaxReviews == 2

\* document_id of POST /projects/{id}/extract: none (all documents), a
\* document of the project, or an id that no document has
ExtractionTargets == { PyNone, PyStr(<<"d","2">>), PyStr(<<"d","9">>) }

\* the extraction a review request names: none has id 0
ReviewTargets == {0, 1}

\* evaluation_data['items']
RequestItems == <<EvaluationItem(PyStr(<<"d","1">>), PyStr(TotalAmountName), PyStr(<<"U","S","D"," ","1","2","3","4",".","5","0">>))>>

JobIdle == job.phase \in {"none", "ended"}

TasksOfType(task_type) == { i \in 1..Len(tasks) : tasks[i].task_type = task_type }

othersVars == <<extractVars, citeVars, document_chunks, normVars, scoreVars, documents, csv>>

InitService ==
  /\ documents = <<ProjectDocument(<<"d","1">>, <<"a",".","p","d","f">>), ProjectDocument(<<"d","2">>, <<"b",".","p","d","f">>)>>
  /\ extractions = <<>>
  /\ stored_citations = <<>>
  /\ review_states = <<>>
  /\ doc_status = EmptyStore.doc_status
  /\ tasks = <<>>
  /\ job = NoJob
  /\ budget = [faults |-> MaxFaults, reviews |-> MaxReviews]
  /\ evaluations = <<>>
  /\ report = PyNone
  /\ table = PyNone
  /\ csv = <<>>
  /\ pc = "request"
  /\ ExtractIdle
  /\ CiteIdle
  /\ NormIdle
  /\ ScoreIdle
  /\ document_chunks = <<>>

\* POST /projects/{id}/extract: the task is created and _run_extraction is
\* scheduled
RequestExtraction ==
  /\ pc = "request"
  /\ JobIdle
  /\ evaluations = <<>>
  /\ Cardinality(TasksOfType("extract")) < MaxRuns
  /\ \E target \in ExtractionTargets, template \in Templates :
       job' = [phase |-> "queued", task |-> Len(tasks) + 1, kind |-> "extract", target |-> target, template |-> template, position |-> 0, raised |-> FALSE, error |-> ""]
  /\ tasks' = create_task(tasks, "extract")
  /\ UNCHANGED <<extractions, stored_citations, review_states, doc_status, budget, evaluations, report, table, pc>>
  /\ UNCHANGED othersVars

\* POST /projects/{id}/evaluate: the task is created and _run_evaluation is
\* scheduled
RequestEvaluation ==
  /\ JobIdle
  /\ TasksOfType("evaluate") = {}
  /\ job' = [phase |-> "queued", task |-> Len(tasks) + 1, kind |-> "evaluate", target |-> PyNone, template |-> <<>>, position |-> 0, raised |-> FALSE, error |-> ""]
  /\ tasks' = create_task(tasks, "evaluate")
  /\ UNCHANGED <<extractions, stored_citations, review_states, doc_status, budget, evaluations, report, table, pc>>
  /\ UNCHANGED othersVars

\* whether the next storage call fails
Failures == IF budget.faults > 0 THEN {FALSE, TRUE} ELSE {FALSE}

Spend(fails) == [budget EXCEPT !.faults = IF fails THEN budget.faults - 1 ELSE budget.faults]

Raise(error) == [job EXCEPT !.phase = "failing", !.raised = TRUE, !.error = error]

\* update_task(task_id, status='PROCESSING'), the first statement of the try
StartJob ==
  /\ job.phase = "queued"
  /\ \E fails \in Failures :
       /\ tasks' = IF fails THEN tasks ELSE update_task(tasks, job.task, "PROCESSING", "", FALSE)
       /\ job' = IF fails THEN Raise("storage failure") ELSE [job EXCEPT !.phase = "running"]
       /\ budget' = Spend(fails)
  /\ UNCHANGED <<extractions, stored_citations, review_states, doc_status, evaluations, report, table, pc>>
  /\ UNCHANGED othersVars

\* the document the running extraction job works on next
NextDocument == IF job.target = PyNone THEN documents[job.position + 1].id ELSE job.target.s

\* the positions at which the run on the next document may fail
FaultPoints == IF budget.faults > 0 THEN 0..WriteCount(NextDocument, job.template) ELSE {0}

\* the job after extract_fields_for_document returned or raised
AfterDocument(outcome) ==
  IF outcome.raised THEN Raise(outcome.error)
  ELSE IF job.target = PyNone /\ job.position + 1 < Len(documents)
  THEN [job EXCEPT !.position = job.position + 1]
  ELSE [job EXCEPT !.phase = "completing", !.position = job.position + 1]

Extracted(outcome) ==
  /\ SetStore(outcome.store)
  /\ job' = AfterDocument(outcome)

\* _run_extraction: extract_fields_for_document on the named document, or the
\* next round of the loop of extract_all_documents
ExtractDocument ==
  /\ job.phase = "running"
  /\ job.kind = "extract"
  /\ \E fault \in FaultPoints :
       /\ Extracted(extract_fields_for_document(Store, NextDocument, job.template, fault))
       /\ budget' = Spend(fault > 0)
  /\ UNCHANGED <<tasks, evaluations, report, table, pc>>
  /\ UNCHANGED othersVars

\* the loop of _run_evaluation over the items
RECURSIVE EvaluateItems(_, _, _, _)
EvaluateItems(exts, evals, items, n) ==
  IF n = 0 THEN evals
  ELSE evaluate_extraction(exts, EvaluateItems(exts, evals, items, n - 1), items[n].document_id, items[n].field_name, items[n].human_value)

\* _run_evaluation: the items, then the report; create_evaluation may fail
EvaluateProject ==
  /\ job.phase = "running"
  /\ job.kind = "evaluate"
  /\ \E fails \in Failures :
       /\ evaluations' = IF fails THEN evaluations ELSE EvaluateItems(extractions, evaluations, RequestItems, Len(RequestItems))
       /\ report' = IF fails THEN report ELSE generate_evaluation_report(EvaluateItems(extractions, evaluations, RequestItems, Len(RequestItems)))
       /\ job' = IF fails THEN Raise("storage failure") ELSE [job EXCEPT !.phase = "completing"]
       /\ budget' = Spend(fails)
  /\ UNCHANGED <<extractions, stored_citations, review_states, doc_status, tasks, table, pc>>
  /\ UNCHANGED othersVars

\* update_task(task_id, status='COMPLETED', result=...), the last statement of
\* the try
CompleteJob ==
  /\ job.phase = "completing"
  /\ \E fails \in Failures :
       /\ tasks' = IF fails THEN tasks ELSE update_task(tasks, job.task, "COMPLETED", "", TRUE)
       /\ job' = IF fails THEN Raise("storage failure") ELSE [job EXCEPT !.phase = "ended"]
       /\ budget' = Spend(fails)
  /\ UNCHANGED <<extractions, stored_citations, review_states, doc_status, evaluations, report, table, pc>>
  /\ UNCHANGED othersVars

\* except Exception as e: update_task(task_id, status='FAILED',
\* error_message=str(e)); when this call fails the job ends with the exception
FailJob ==
  /\ job.phase = "failing"
  /\ \E fails \in Failures :
       /\ tasks' = IF fails THEN tasks ELSE update_task(tasks, job.task, "FAILED", job.error, FALSE)
       /\ budget' = Spend(fails)
  /\ job' = [job EXCEPT !.phase = "ended"]
  /\ UNCHANGED <<extractions, stored_citations, review_states, doc_status, evaluations, report, table, pc>>
  /\ UNCHANGED othersVars

\* PUT /extractions/{id}/review
ReviewExtraction ==
  /\ JobIdle
  /\ budget.reviews > 0
  /\ \E extraction_id \in ReviewTargets, status \in ReviewStatuses :
       SetStore(update_extraction_review(Store, extraction_id, status, PyNone))
  /\ budget' = [budget EXCEPT !.reviews = budget.reviews - 1]
  /\ UNCHANGED <<tasks, job, evaluations, report, table, pc>>
  /\ UNCHANGED othersVars

\* GET /projects/{id}/table, between two jobs
GetProjectTable ==
  /\ JobIdle
  /\ GetComparisonTable

NextService ==
  \/ RequestExtraction
  \/ RequestEvaluation
  \/ StartJob
  \/ ExtractDocument
  \/ EvaluateProject
  \/ CompleteJob
  \/ FailJob
  \/ ReviewExtraction
  \/ GetProjectTable

SpecService == InitService /\ [][NextService]_vars

(***************************************************************************)
(* FieldExtractor._extract_with_heuristics on its own: the call of         *)
(* _get_patterns_for_field (line 186), then the loop over the patterns.    *)
(***************************************************************************)
TwoDatesText == <<"s","i","g","n","e","d"," ","j","a","n","u","a","r","y"," ","5",","," ","2","0","2","4",","," ","d","u","e"," ","1","/","1","5","/","2","0","2","4">>

TermAndLiabilityText == <<"T","E","R","M",":"," ","5"," ","Y","e","a","r","s"," ","a","n","d"," ","l","i","a","b","i","l","i","t","y",":"," ","n","o","n","e"," ","a","s"," ","a","g","r","e","e","d">>

LowerCurrencyText == <<"u","s","d"," ","5","0","0"," ","p","a","i","d">>

TwoAmountsText == <<"E","U","R"," ","2","0"," ","o","r"," ","$","3","0">>

HeuristicTexts == { AgreementText, TermsText, PartyText, TwoDatesText, TermAndLiabilityText, LowerCurrencyText, TwoAmountsText, <<>> }

HeuristicNames == { EffectiveDateName, TermName, TotalAmountName, GoverningLawName, <<"P","a","r","t","i","e","s">>, <<"L","i","a","b","i","l","i","t","y">>, <<"S","i","g","n","i","n","g">>, <<"U","p","d","a","t","e">>, <<"P","a","r","t","y"," ","T","e","r","m"," ","D","a","t","e">>, <<"T","e","r","m","i","n","a","t","i","o","n"," ","P","a","r","t","y">>, <<"A","m","o","u","n","t"," ","o","f"," ","L","i","a","b","i","l","i","t","y">>, <<"L","i","a","b","l","e"," ","P","a","r","t","y">> }

\* the declared types; the test of the type is case-sensitive
HeuristicTypes == { TypeTEXT, TypeDATE, TypeCURRENCY, <<"c","u","r","r","e","n","c","y">> }

InitHeuristic ==
  /\ \E text \in HeuristicTexts : document_text = PyStr(text)
  /\ \E name \in HeuristicNames, type \in HeuristicTypes :
       pattern_field = [field_name |-> PyStr(name), field_type |-> PyStr(type)]
  /\ field_patterns = <<>>
  /\ heuristic = PyNone
  /\ pc = "call"
  /\ llm_client = NoBackend
  /\ field_definitions = <<>>
  /\ results = <<>>
  /\ responses = <<>>
  /\ document_chunks = <<>>
  /\ CiteIdle
  /\ LaterIdle

\* patterns = self._get_patterns_for_field(field_name, field_type)
GetPatternsForField ==
  /\ pc = "call"
  /\ field_patterns' = get_patterns_for_field(pattern_field.field_name.s, pattern_field.field_type)
  /\ pc' = "patterns"
  /\ UNCHANGED <<llm_client, document_text, document_chunks, field_definitions, results, responses, pattern_field, heuristic>>
  /\ UNCHANGED citeVars
  /\ UNCHANGED laterVars

\* the loop over the patterns and the return
ScanPatterns ==
  /\ pc = "patterns"
  /\ heuristic' = HeuristicScan(document_text.s, field_patterns, 1)
  /\ pc' = "returned"
  /\ UNCHANGED <<llm_client, document_text, document_chunks, field_definitions, results, responses, pattern_field, field_patterns>>
  /\ UNCHANGED citeVars
  /\ UNCHANGED laterVars

NextHeuristic == GetPatternsForField \/ ScanPatterns

SpecHeuristic == InitHeuristic /\ [][NextHeuristic]_vars

(***************************************************************************)
(* Properties of extract_fields (checked under SpecExtract)                *)
(***************************************************************************)
AllMappings ==
  \A i \in 1..Len(field_definitions) : field_definitions[i].ismapping

\* the result of the strategy extract_single_field chooses for a field
Strategy(client, text, field_def) ==
  IF client.configured
  THEN extract_with_llm(text, ResponseTo(client, field_def))
  ELSE extract_with_heuristics(text, NameOf(field_def), TypeOf(field_def))

\* citation ranking or normalization raises on a strategy's raw result
LaterStepFails(raw, chunks, ftype) ==
  \/ find_citations(PyOr(raw.raw_text, raw.value), chunks, TopK).raised
  \/ normalize_value(raw.value, ftype).raised

StepFails(strategy_result, chunks, ftype) ==
  \/ strategy_result.raised
  \/ LaterStepFails(strategy_result.val, chunks, ftype)

\* processing the field fails in the strategy, the ranking or the normalization
Fails(client, text, chunks, field_def) ==
  StepFails(Strategy(client, text, field_def), chunks, TypeOf(field_def))

IsErrorRecord(r) ==
  /\ r.error # ""
  /\ r.extracted_value = PyNone
  /\ r.confidence_score = 0
  /\ r.citations = <<>>

\* the sequence s without its element i
Without(s, i) == [k \in 1..(Len(s) - 1) |-> IF k < i THEN s[k] ELSE s[k + 1]]

\* C1: for a list of field definitions that are all mappings, extract_fields
\* raises nothing, and returns one record per definition in the order of the
\* definitions: the result is as long as the input and record i carries the
\* name and the type of definition i (the defaults '' and 'TEXT' for a key
\* the definition lacks), whether the field matched, did not match or failed.
OneRecordPerDefinition ==
  AllMappings =>
    /\ pc # "raised"
    /\ Len(results) <= Len(field_definitions)
    /\ pc = "returned" => Len(results) = Len(field_definitions)
    /\ \A i \in 1..Len(results) :
         /\ results[i].field_name = NameOf(field_definitions[i])
         /\ results[i].field_type = TypeOf(field_definitions[i])

\* a returned batch of two different fields: the first matched, the second failed
MatchedThenFailed ==
  /\ pc = "returned"
  /\ Len(results) = 2
  /\ field_definitions[1] # field_definitions[2]
  /\ results[1].error = ""
  /\ results[1].extracted_value # PyNone
  /\ results[2].error # ""

Unsupported(field_def) ==
  TypeOf(field_def) \notin { PyStr(t) : t \in SupportedTypes }

\* a mapping that gives its field no name, or a name that is no string
Malformed(field_def) == ~IsStr(field_def.name)

\* C3: for field definitions that are mappings, no exception escapes
\* extract_fields, and a definition with an unsupported field type or a
\* malformed definition gets a failed record: error set, confidence_score 0.
InputErrorsAreFailedRecords ==
  AllMappings =>
    /\ pc # "raised"
    /\ \A i \in 1..Len(results) :
         (Unsupported(field_definitions[i]) \/ Malformed(field_definitions[i])) =>
           /\ results[i].error # ""
           /\ results[i].confidence_score = 0

\* C4: a record whose extracted_value is null has confidence_score 0 and no
\* citations, under either strategy and whatever the backend responds.
NullValueHasNoScoreNoCitations ==
  \A i \in 1..Len(results) :
    results[i].extracted_value = PyNone =>
      /\ results[i].confidence_score = 0
      /\ results[i].citations = <<>>

InUnitInterval(score) == FracLeq(FracZero, score) /\ FracLeq(score, FracOne)

\* C5: in every record confidence_score lies in [0,1] (0..FullScore in
\* thousandths) and every citation's relevance_score lies in [0,1], whatever
\* confidence the backend reports.
ScoresInUnitInterval ==
  \A i \in 1..Len(results) :
    /\ results[i].confidence_score >= 0
    /\ results[i].confidence_score <= FullScore
    /\ \A k \in 1..Len(results[i].citations) :
         InUnitInterval(results[i].citations[k].relevance_score)

\* none of the field's patterns matches the text
NoPatternMatches(text, patterns) ==
  \A j \in 1..Len(patterns) : ~Search(patterns[j].re, text, TRUE).ok

Unmatched(text, field_def) ==
  /\ IsStr(text)
  /\ IsStr(NameOf(field_def))
  /\ NoPatternMatches(text.s,
                      get_patterns_for_field(NameOf(field_def).s, TypeOf(field_def)))

IsNullRecord(r) ==
  /\ r.extracted_value = PyNone
  /\ r.normalized_value = PyNone
  /\ r.confidence_score = 0
  /\ r.citations = <<>>

\* C6: with no backend configured, the record of a field none of whose
\* patterns matches the document text has extracted_value null,
\* normalized_value null, confidence_score 0 and no citations, whatever the
\* chunks are.
UnmatchedFieldIsNull ==
  ~llm_client.configured =>
    \A i \in 1..Len(results) :
      Unmatched(document_text, field_definitions[i]) => IsNullRecord(results[i])

\* a field no pattern matches, extracted without a backend from a document
\* that has chunks
UnmatchedWithChunks ==
  /\ ~llm_client.configured
  /\ document_chunks # <<>>
  /\ \E i \in 1..Len(results) :
       /\ Unmatched(document_text, field_definitions[i])
       /\ results[i].error = ""

\* the response is no JSON object {value: string|null, raw_text: string|null,
\* confidence: number}, or there is no response
ShapeViolation(response) ==
  \/ response.kind # "object"
  \/ response.value.t \notin {"str", "none"}
  \/ response.raw_text.t \notin {"str", "none"}
  \/ response.confidence.t # "num"

\* C7: with a backend configured, a backend exception, a response that is
\* no JSON and a response that violates the shape give a record with
\* extracted_value null and confidence_score 0.
BackendFailureIsNullResult ==
  llm_client.configured =>
    \A i \in 1..Len(results) :
      ShapeViolation(responses[i]) =>
        /\ results[i].extracted_value = PyNone
        /\ results[i].confidence_score = 0

\* C8: without a backend, the DATE field "Effective Date" on the text
\* "This Agreement is effective January 15, 2024 between..." gets an
\* extracted_value that contains "January 15, 2024".
EffectiveDateIsWholeDate ==
  \A i \in 1..Len(results) :
    ( /\ ~llm_client.configured
      /\ document_text = PyStr(AgreementText)
      /\ field_definitions[i] = FieldDef(PyStr(EffectiveDateName), PyStr(TypeDATE)) )
    => /\ IsStr(results[i].extracted_value)
       /\ Contains(results[i].extracted_value.s, FullDate)

(***************************************************************************)
(* Properties of _find_citations (checked under SpecCite)                  *)
(***************************************************************************)
\* C9: _find_citations returns at most top_k citations, none of them with a
\* relevance_score that is not above 0, and none at all for a query that is
\* absent or empty.
CitationsArePositiveAndFew ==
  pc = "returned" =>
    /\ Len(citations) <= top_k
    /\ \A k \in 1..Len(citations) : FracLess(FracZero, citations[k].relevance_score)
    /\ query_text \in {PyNone, PyStr(<<>>)} => citations = <<>>

\* as many chunks as top_k, of which some but not all are cited
FewerThanTopK ==
  /\ pc = "returned"
  /\ top_k = Len(document_chunks)
  /\ Len(citations) >= 1
  /\ Len(citations) < top_k

\* the score of chunk i for the query, and the chunks that score above 0
ScoreOf(i) == Similarity(query_text.s, Get(document_chunks[i].text, PyStr(<<>>)).s)

PositiveChunks == { i \in 1..Len(document_chunks) : FracLess(FracZero, ScoreOf(i)) }

\* chunk i ranks before chunk j: a higher score, or the same score and an
\* earlier place in the chunk list
RanksBefore(i, j) ==
  \/ FracLess(ScoreOf(j), ScoreOf(i))
  \/ ScoreOf(i) = ScoreOf(j) /\ i < j

RankOf(i) == 1 + Cardinality({ j \in PositiveChunks : RanksBefore(j, i) })

\* C10: the citations are the first top_k chunks that score above 0, in the
\* order of descending score in which chunks of equal score keep the order
\* of the chunk list: citation k is the chunk of rank k.
CitationsAreTopRanked ==
  (pc = "returned" /\ Truthy(query_text)) =>
    /\ Len(citations) = Min(top_k, Cardinality(PositiveChunks))
    /\ \A k \in 1..Len(citations) :
         \E i \in PositiveChunks :
           /\ RankOf(i) = k
           /\ citations[k].chunk_id = Str(i - 1)
           /\ citations[k].relevance_score = ScoreOf(i)

\* more chunks score above 0 than top_k, and two of the cited ones tie
TieAmongTopK ==
  /\ pc = "returned"
  /\ Truthy(query_text)
  /\ Len(citations) = top_k
  /\ Cardinality(PositiveChunks) > top_k
  /\ \E k \in 1..(Len(citations) - 1) :
       citations[k].relevance_score = citations[k + 1].relevance_score

\* the text of chunk i of the chunk list
TextOf(i) == Get(document_chunks[i].text, PyStr(<<>>)).s

\* citation c is made from chunk i: it carries the chunk's index, counted
\* from 0, and the first CitationTextMax characters of its text
CitesChunk(c, i) ==
  /\ c.chunk_id = Str(i - 1)
  /\ Len(c.citation_text) <= CitationTextMax
  /\ Len(c.citation_text) <= Len(TextOf(i))
  /\ Len(TextOf(i)) <= CitationTextMax => Len(c.citation_text) = Len(TextOf(i))
  /\ Len(TextOf(i)) > CitationTextMax => Len(c.citation_text) = CitationTextMax
  /\ \A j \in 1..Len(c.citation_text) : c.citation_text[j] = TextOf(i)[j]

\* C11: every citation _find_citations returns is made from one chunk of the
\* chunk list: its chunk_id is that chunk's index in the list as it was
\* passed, its citation_text the first 500 characters of that chunk's text,
\* and no two citations are made from the same chunk.
CitationsReferToChunks ==
  pc = "returned" =>
    /\ \A k \in 1..Len(citations) :
         \E i \in 1..Len(document_chunks) : CitesChunk(citations[k], i)
    /\ \A k, l \in 1..Len(citations) :
         k # l => citations[k].chunk_id # citations[l].chunk_id

\* the first citation is cut to 500 characters and is made from a chunk that
\* is not the first of the list
TruncatedOutOfOrder ==
  /\ pc = "returned"
  /\ Len(citations) >= 2
  /\ Len(citations[1].citation_text) = CitationTextMax
  /\ citations[1].chunk_id # <<"0">>
  /\ \E i \in 1..Len(document_chunks) :
       CitesChunk(citations[1], i) /\ Len(TextOf(i)) > CitationTextMax

(***************************************************************************)
(* Properties of _normalize_value (checked under SpecNormalize)            *)
(***************************************************************************)
\* _normalize_value has returned for a field of this type
Normalized(ftype) ==
  /\ pc \in {"normalized", "renormalized"}
  /\ field_type = PyStr(ftype)

\* s is written YYYY-MM-DD
IsIsoDate(s) ==
  /\ Len(s) = 10
  /\ \A i \in 1..10 : IF i \in {5, 8} THEN s[i] = "-" ELSE s[i] \in Digits

\* v holds a date written M/D/YYYY, or one written YYYY-MM-DD
HoldsSlashDate(v) == Search(NormSlashDate, v, FALSE).ok

HoldsIsoDate(v) == Search(NormIsoDate, v, FALSE).ok

\* the result for a DATE value v that is a non-empty string
DateResultOf(v, result) ==
  /\ HoldsSlashDate(v) => IsIsoDate(result)
  /\ (~HoldsSlashDate(v) /\ HoldsIsoDate(v)) => (IsIsoDate(result) /\ Contains(v, result))
  /\ (~HoldsSlashDate(v) /\ ~HoldsIsoDate(v)) => result = Strip(v)

\* C12: _normalize_value(v, DATE) is null for an empty or absent v; for a v
\* that holds M/D/YYYY it is a date YYYY-MM-DD, else for a v that holds
\* YYYY-MM-DD it is that date, else it is v trimmed; "01/15/2024" and
\* "2024-01-15" both give "2024-01-15"; and normalizing the result again
\* returns the result.
DateNormalization ==
  Normalized(TypeDATE) =>
    /\ ~Truthy(extracted_value) => normalized_value = PyNone
    /\ Truthy(extracted_value) =>
         /\ IsStr(normalized_value)
         /\ DateResultOf(extracted_value.s, normalized_value.s)
    /\ extracted_value \in {PyStr(SlashDateText), PyStr(IsoDateText)} =>
         normalized_value = PyStr(IsoDateText)
    /\ pc = "renormalized" => renormalized = normalized_value

HasDigit(v) == \E i \in 1..Len(v) : v[i] \in Digits

\* a numeric run: digits with thousands separators, then an optional
\* fraction; it begins with a digit
NumericRun ==
  Cat(<<Ch(Digits), Star(Ch(Digits \cup {","})), Opt(Ch({"."})), Star(Ch(Digits))>>)

FirstNumericRun(v) == Group0(v, Search(NumericRun, v, FALSE))

\* C13: for a v with a numeric run, _normalize_value(v, CURRENCY) is "USD "
\* followed by the first numeric run of v without its thousands separators
\* ("$1,234.50" gives "USD 1234.50"); for a v without a digit it is v,
\* trimmed.
CurrencyNormalization ==
  (Normalized(TypeCURRENCY) /\ Truthy(extracted_value)) =>
    /\ IsStr(normalized_value)
    /\ HasDigit(extracted_value.s) =>
         normalized_value.s =
           <<"U", "S", "D", " ">> \o DropCommas(FirstNumericRun(extracted_value.s))
    /\ ~HasDigit(extracted_value.s) => normalized_value.s = Strip(extracted_value.s)
    /\ extracted_value = PyStr(AmountText) =>
         normalized_value.s = <<"U", "S", "D", " ">> \o PlainAmountText

\* the lowercased value contains an affirmative word, a negative word
SaysYes(lowered) ==
  \E w \in {<<"y","e","s">>, <<"t","r","u","e">>, <<"a","g","r","e","e","d">>, <<"c","o","n","f","i","r","m","e","d">>} : Contains(lowered, w)

SaysNo(lowered) ==
  \E w \in {<<"n","o">>, <<"f","a","l","s","e">>, <<"d","e","n","i","e","d">>, <<"r","e","j","e","c","t","e","d">>} : Contains(lowered, w)

BooleanResultOf(lowered, v, result) ==
  /\ SaysYes(lowered) => result = <<"t","r","u","e">>
  /\ (~SaysYes(lowered) /\ SaysNo(lowered)) => result = <<"f","a","l","s","e">>
  /\ (~SaysYes(lowered) /\ ~SaysNo(lowered)) => result = Strip(v)

\* C14: _normalize_value(v, BOOLEAN) is "true" when the lowercased v contains
\* one of yes, true, agreed, confirmed; else "false" when it contains one of
\* no, false, denied, rejected; else v, trimmed.  The affirmative words are
\* tested first: "Yes, confirmed" and "not agreed" give "true".
BooleanNormalization ==
  (Normalized(TypeBOOLEAN) /\ Truthy(extracted_value)) =>
    /\ IsStr(normalized_value)
    /\ BooleanResultOf(Lower(extracted_value.s), extracted_value.s, normalized_value.s)
    /\ extracted_value \in {PyStr(YesConfirmedText), PyStr(NotAgreedText)} =>
         normalized_value.s = <<"t","r","u","e">>

\* "not agreed", which contains a word of either set, has been normalized
BothSetsNormalized ==
  /\ Normalized(TypeBOOLEAN)
  /\ extracted_value = PyStr(NotAgreedText)
  /\ SaysYes(Lower(extracted_value.s))
  /\ SaysNo(Lower(extracted_value.s))
  /\ normalized_value.s = <<"t","r","u","e">>

\* C14 as stated: as BooleanNormalization, but a v that contains a word of
\* neither set is returned as it is, blanks around it included.
BooleanPassesThroughUnchanged ==
  (Normalized(TypeBOOLEAN) /\ Truthy(extracted_value)) =>
    /\ IsStr(normalized_value)
    /\ SaysYes(Lower(extracted_value.s)) => normalized_value.s = <<"t","r","u","e">>
    /\ (~SaysYes(Lower(extracted_value.s)) /\ SaysNo(Lower(extracted_value.s))) =>
         normalized_value.s = <<"f","a","l","s","e">>
    /\ (~SaysYes(Lower(extracted_value.s)) /\ ~SaysNo(Lower(extracted_value.s))) =>
         normalized_value = extracted_value

(***************************************************************************)
(* Properties of _validate_extraction (checked under SpecValidate)         *)
(***************************************************************************)
StartsWithIsoDate(s) == Len(s) >= 10 /\ IsIsoDate(SubSeq(s, 1, 10))

\* the multiplier, in tenths, of a non-empty normalized value s
TypeRule(ftype, s) ==
  IF ftype = PyStr(TypeDATE)
  THEN IF StartsWithIsoDate(s) THEN 10 ELSE 6
  ELSE IF ftype = PyStr(TypeCURRENCY)
  THEN IF Contains(s, <<"U","S","D">>) /\ HasDigit(s) THEN 10 ELSE 6
  ELSE IF ftype = PyStr(TypeBOOLEAN)
  THEN IF s \in {<<"t","r","u","e">>, <<"f","a","l","s","e">>} THEN 10 ELSE 5
  ELSE 8

TableBuilt ==
  /\ pc \in {"generated", "exported"}
  /\ documents # <<>>
  /\ extractions # <<>>

ListedDocuments == { documents[i].id : i \in 1..Len(documents) }

\* the positions of the extraction records of a (document, field) combination
RecordsOf(document_id, field_name) ==
  { i \in 1..Len(extractions) : extractions[i].document_id = document_id /\ extractions[i].field_name = field_name }

IsSentinel(cell) ==
  /\ DOMAIN cell = {"extracted_value", "confidence_score"}
  /\ cell.extracted_value = PyStr(<<"N","/","A">>)
  /\ cell.confidence_score = 0

\* C16: in the table built from a non-empty document list and a non-empty
\* extraction list, every row's document_results has one cell for every
\* document of the list and for no other document, and a (document, field)
\* combination without an extraction record holds the sentinel cell
\* {extracted_value: "N/A", confidence_score: 0.0}.
OneCellPerListedDocument ==
  TableBuilt =>
    \A r \in 1..Len(table.rows) :
      /\ DOMAIN table.rows[r].document_results = ListedDocuments
      /\ \A d \in ListedDocuments :
           RecordsOf(d, table.rows[r].field_name) = {} => IsSentinel(table.rows[r].document_results[d])

\* a table with a sentinel cell, built while an extraction record names a
\* document that is not in the list
SentinelBesideUnlistedDocument ==
  /\ TableBuilt
  /\ Len(documents) = 2
  /\ \E i \in 1..Len(extractions) : extractions[i].document_id \notin ListedDocuments
  /\ \E r \in 1..Len(table.rows) : \E d \in ListedDocuments :
       /\ RecordsOf(d, table.rows[r].field_name) = {}
       /\ IsSentinel(table.rows[r].document_results[d])

\* the cell holds the values of extraction record i
HoldsRecord(cell, i) ==
  /\ DOMAIN cell = {"id", "extracted_value", "normalized_value", "confidence_score", "status"}
  /\ cell.id = extractions[i].id
  /\ cell.extracted_value = extractions[i].extracted_value
  /\ cell.normalized_value = extractions[i].normalized_value
  /\ cell.confidence_score = extractions[i].confidence_score
  /\ cell.status = extractions[i].status

RowsNamed(field_name) == { r \in 1..Len(table.rows) : table.rows[r].field_name = field_name }

\* C17: when several extraction records have the same (document, field_name),
\* the cell holds the values of the last of them, and the field still has a
\* single row.
LastRecordWins ==
  TableBuilt =>
    \A i \in 1..Len(extractions) :
      /\ Cardinality(RowsNamed(extractions[i].field_name)) = 1
      /\ extractions[i].document_id \in ListedDocuments =>
           \A r \in RowsNamed(extractions[i].field_name) :
             HoldsRecord(table.rows[r].document_results[extractions[i].document_id], MaxOf(RecordsOf(extractions[i].document_id, extractions[i].field_name)))

\* two records of one (document, field) with different values, the later one
\* in the cell
DuplicateOverwritten ==
  /\ TableBuilt
  /\ \E i, j \in 1..Len(extractions) :
       /\ i < j
       /\ extractions[i].document_id = extractions[j].document_id
       /\ extractions[i].field_name = extractions[j].field_name
       /\ extractions[i].extracted_value # extractions[j].extracted_value
       /\ extractions[j].document_id \in ListedDocuments
       /\ RecordsOf(extractions[j].document_id, extractions[j].field_name) = {i, j}
       /\ \E r \in 1..Len(table.rows) : table.rows[r].document_results[extractions[j].document_id].extracted_value = extractions[j].extracted_value

FieldNames == { extractions[i].field_name : i \in 1..Len(extractions) }

\* where a field name is first seen in the extraction list
FirstSeen(field_name) == MinOf({ i \in 1..Len(extractions) : extractions[i].field_name = field_name })

\* C18: the table has exactly one row per distinct field_name of the
\* extraction list, and the rows are in the order in which the field names are
\* first seen.
OneRowPerFieldInFirstSeenOrder ==
  TableBuilt =>
    /\ \A f \in FieldNames : Cardinality(RowsNamed(f)) = 1
    /\ \A r \in 1..Len(table.rows) : table.rows[r].field_name \in FieldNames
    /\ table.row_count = Cardinality(FieldNames)
    /\ \A r, q \in 1..Len(table.rows) :
         r < q => FirstSeen(table.rows[r].field_name) < FirstSeen(table.rows[q].field_name)

\* two rows from three records, the first field seen again after the second
InterleavedFields ==
  /\ TableBuilt
  /\ Len(extractions) = 3
  /\ extractions[1].field_name = extractions[3].field_name
  /\ extractions[1].field_name # extractions[2].field_name
  /\ Len(table.rows) = 2
  /\ table.rows[1].field_name = extractions[1].field_name

\* the header the export owes to the document list
ExpectedHeader == <<<<"F","i","e","l","d"," ","N","a","m","e">>, <<"F","i","e","l","d"," ","T","y","p","e">>>> \o [i \in 1..Len(documents) |-> documents[i].filename]

\* a value as a CSV field holds it: a string as itself, an absent value as
\* the empty field
Written(value) == IF value.t = "none" THEN <<>> ELSE value.s

\* what the cell of a document in the row of a field has to show
ExpectedCell(document_id, field_name) ==
  IF RecordsOf(document_id, field_name) = {}
  THEN <<"N","/","A">>
  ELSE Written(extractions[MaxOf(RecordsOf(document_id, field_name))].extracted_value)

\* C19: for any document list and any extraction list, an empty extraction
\* list with a non-empty document list included, the CSV export has the
\* header [Field Name, Field Type, one column per document filename], one
\* data row per comparison row, as many cells in each data row as in the
\* header, and in each document cell that document's extracted_value or "N/A".
CsvExportShape ==
  pc = "exported" =>
    /\ csv[1] = ExpectedHeader
    /\ Len(csv) = 1 + Len(table.rows)
    /\ \A r \in 1..Len(table.rows) :
         /\ Len(csv[r + 1]) = Len(csv[1])
         /\ csv[r + 1][1] = table.rows[r].field_name
         /\ csv[r + 1][2] = table.rows[r].field_type
         /\ \A i \in 1..Len(documents) :
              csv[r + 1][2 + i] = ExpectedCell(documents[i].id, table.rows[r].field_name)

\* the same, for the exports of a project that has extraction records
CsvExportShapeWithRecords ==
  (pc = "exported" /\ extractions # <<>>) => CsvExportShape

(***************************************************************************)
(* Properties of _calculate_match_score (checked under SpecScore)          *)
(***************************************************************************)
\* a value is absent when it is null
Absent(v) == v.t = "none"

\* both values are text and the same once lowercased and trimmed
EqualAfterLowerAndTrim(v, w) ==
  /\ v.t = "str"
  /\ w.t = "str"
  /\ Strip(Lower(v.s)) = Strip(Lower(w.s))

\* C20: when either side is absent the score is 1.0 if both are absent and 0.0
\* otherwise; a non-empty value scores 1.0 against itself; two values that are
\* equal after lowercasing and trimming score 1.0.
MatchScoreOfEqualValues ==
  pc = "scored" =>
    /\ (Absent(ai_value) \/ Absent(human_value)) =>
         match_score = (IF Absent(ai_value) /\ Absent(human_value) THEN FracOne ELSE FracZero)
    /\ (ai_value = human_value /\ ai_value.t = "str" /\ ai_value.s # <<>>) => match_score = FracOne
    /\ EqualAfterLowerAndTrim(ai_value, human_value) => match_score = FracOne

\* the same where both values hold something
MatchScoreOfNonEmptyValues ==
  (pc = "scored" /\ Truthy(ai_value) /\ Truthy(human_value)) => MatchScoreOfEqualValues

\* what the code returns on the pairs Python was run on
MatchScoreSamples ==
  /\ calculate_match_score(PyStr(<<"A","c","m","e"," ","C","o","r","p">>), PyStr(<<"A","c","m","e"," ","I","n","c">>)) = Frac(12, 17)
  /\ calculate_match_score(PyStr(<<"a","b","c","d">>), PyStr(<<"b","c","d","e">>)) = Frac(3, 4)
  /\ calculate_match_score(PyStr(<<"5"," ","y","e","a","r","s">>), PyStr(<<"3"," ","y","e","a","r","s">>)) = Frac(6, 7)
  /\ calculate_match_score(PyStr(<<"a","b","x","c","d">>), PyStr(<<"a","b","c","d">>)) = Frac(8, 9)
  /\ calculate_match_score(PyStr(<<"a","b">>), PyStr(<<"b","a">>)) = Frac(1, 2)
  /\ calculate_match_score(PyStr(<<>>), PyNone) = FracZero
  /\ calculate_match_score(PyStr(<<" ">>), PyStr(<<" "," ">>)) = FracOne

\* C21: for all pairs of values a and b, _calculate_match_score is symmetric,
\* score(a, b) = score(b, a), and its result lies in [0, 1].
MatchScoreSymmetricInUnitInterval ==
  pc = "scored" =>
    /\ match_score = calculate_match_score(human_value, ai_value)
    /\ 0 <= match_score.n
    /\ match_score.n <= match_score.d

\* the range alone
MatchScoreInUnitInterval ==
  pc = "scored" => (0 <= match_score.n /\ match_score.n <= match_score.d /\ match_score.d > 0)

(***************************************************************************)
(* Properties of the evaluation service (checked under SpecEvaluate)       *)
(***************************************************************************)
\* score > 0.8, on the fraction
AboveThreshold(score) == score.n * 5 > 4 * score.d

EvaluationsOf(field_name) == { i \in 1..Len(evaluations) : evaluations[i].field_name = field_name }

MatchesOf(field_name) == { i \in EvaluationsOf(field_name) : AboveThreshold(evaluations[i].match_score) }

EvaluatedFields == { evaluations[i].field_name : i \in 1..Len(evaluations) }

\* C22: an evaluation's normalized_match is true exactly when its match_score
\* is above 0.8 (a score of exactly 0.8 is no match), and in the report each
\* field's accuracy is the number of its evaluations with match_score > 0.8
\* divided by the number of its evaluations.
StrictThresholdEverywhere ==
  /\ \A i \in 1..Len(evaluations) :
       evaluations[i].normalized_match <=> AboveThreshold(evaluations[i].match_score)
  /\ pc = "reported" =>
       /\ { report.field_results[r].field_name : r \in 1..Len(report.field_results) } = EvaluatedFields
       /\ \A r \in 1..Len(report.field_results) :
            report.field_results[r].accuracy.n * Cardinality(EvaluationsOf(report.field_results[r].field_name))
              = report.field_results[r].accuracy.d * Cardinality(MatchesOf(report.field_results[r].field_name))

ScoresAre(scores) ==
  /\ Len(evaluations) = Len(scores)
  /\ \A i \in 1..Len(scores) : evaluations[i].match_score = scores[i]

\* a report over the scores [1.0, 0.9, 0.8, 0.2] of one field: the score of
\* exactly 0.8 is no match and the accuracy is 0.5
ThresholdScoreIsNoMatch ==
  /\ pc = "reported"
  /\ ScoresAre(<<Frac(1, 1), Frac(9, 10), Frac(4, 5), Frac(1, 5)>>)
  /\ ~evaluations[3].normalized_match
  /\ Len(report.field_results) = 1
  /\ report.field_results[1].accuracy = Frac(1, 2)

\* the scores [1.0, 0.9, 0.5, 0.2] of one field give the accuracy 0.5
HalfOfFourMatch ==
  /\ pc = "reported"
  /\ ScoresAre(<<Frac(1, 1), Frac(9, 10), Frac(1, 2), Frac(1, 5)>>)
  /\ Len(report.field_results) = 1
  /\ report.field_results[1].accuracy = Frac(1, 2)
  /\ report.metrics.matched_fields = 2

AllZero(metrics) ==
  /\ metrics.total_fields = 0
  /\ metrics.matched_fields = 0
  /\ metrics.field_accuracy = FracZero
  /\ metrics.average_confidence = FracZero
  /\ metrics.coverage_percentage = FracZero

TableReturned == "rows" \in DOMAIN table

\* C23: empty input to the aggregators is a zero result: the comparison table
\* of a project without documents or without extractions has no rows and
\* row_count 0, and the report of a project without evaluations has
\* total_fields 0, matched_fields 0, field_accuracy 0.0, mean match score 0.0,
\* coverage_percentage 0.0 and no field results.
EmptyInputIsZeroResult ==
  /\ (TableReturned /\ (documents = <<>> \/ extractions = <<>>)) =>
       (table.rows = <<>> /\ table.row_count = 0)
  /\ (pc = "reported" /\ evaluations = <<>>) =>
       (AllZero(report.metrics) /\ report.field_results = <<>>)

\* a project with a document and nothing else: its table and its report
NothingToAggregate ==
  /\ pc = "reported"
  /\ TableReturned
  /\ documents # <<>>
  /\ extractions = <<>>
  /\ evaluations = <<>>
  /\ table.row_count = 0
  /\ AllZero(report.metrics)

(***************************************************************************)
(* Properties of the extraction, review and task services (checked under   *)
(* SpecService).                                                           *)
(***************************************************************************)
\* the first job of the project, an extraction of all documents, has ended
\* with an exception raised while the document after job.position was
\* processed (some record of the run is stored, so the job had started)
FailedAtOneDocument ==
  /\ Len(tasks) = 1
  /\ job.phase = "ended"
  /\ job.kind = "extract"
  /\ job.target = PyNone
  /\ job.raised
  /\ job.position < Len(documents)
  /\ extractions # <<>>

HasRecords(document_id) == \E i \in 1..Len(extractions) : extractions[i].document_id = document_id

\* C24: when extract_all_documents fails while it processes one document,
\* every other document of the project is still extracted and stored: it has
\* extraction records and the status EXTRACTED.
OtherDocumentsStillExtracted ==
  FailedAtOneDocument =>
    \A k \in 1..Len(documents) :
      k # job.position + 1 => (HasRecords(documents[k].id) /\ doc_status[documents[k].id] = "EXTRACTED")

\* the runs on which the claim's case happens and the rest is extracted: the
\* failure is at the last document
FailedAtLastDocument ==
  /\ FailedAtOneDocument
  /\ job.position + 1 = Len(documents)
  /\ doc_status[documents[1].id] = "EXTRACTED"

(***************************************************************************)
(* Properties of the heuristic strategy (checked under SpecHeuristic).     *)
(***************************************************************************)
\* the patterns of the list that have a match in the text, case-insensitive
MatchingPatterns(text, ps) == { j \in 1..Len(ps) : Search(ps[j].re, text, TRUE).ok }

\* the first capture group of the match, or the whole match when the pattern
\* has no group
CapturedBy(text, p, m) == IF p.ngroups > 0 THEN GroupN(text, m, 1) ELSE Group0(text, m)

\* no match of the pattern starts left of m
IsLeftmost(text, p, m) == \A i \in 1..(m.s - 1) : ~MatchK(<<p.re>>, text, i, NoCaps, TRUE).ok

BoostedConfidence(p) == IF 60 + p.boost < 100 THEN 60 + p.boost ELSE 100

\* the result is the capture, as it stands, of the leftmost match of pattern p
IsCaptureOf(text, p, m) ==
  /\ IsLeftmost(text, p, m)
  /\ heuristic.value = PyStr(CapturedBy(text, p, m))
  /\ heuristic.confidence = BoostedConfidence(p)

\* the result is the trimmed capture of the leftmost match of pattern p
IsTrimmedCaptureOf(text, p, m) ==
  /\ IsLeftmost(text, p, m)
  /\ heuristic.value = PyStr(Strip(CapturedBy(text, p, m)))
  /\ heuristic.confidence = BoostedConfidence(p)

FirstMatching(text, ps) == MinOf(MatchingPatterns(text, ps))

SomePatternMatches == pc = "returned" /\ MatchingPatterns(document_text.s, field_patterns) # {}

\* C25 as stated: the value is the first capture group (or the whole match) of
\* the leftmost match of the first pattern, in list order, that matches the
\* text, and the confidence is min(1.0, 0.6 + that pattern's boost).
ValueIsCaptureOfFirstMatchingPattern ==
  SomePatternMatches =>
    IsCaptureOf(document_text.s, field_patterns[FirstMatching(document_text.s, field_patterns)], Search(field_patterns[FirstMatching(document_text.s, field_patterns)].re, document_text.s, TRUE))

\* C25, amended: the value is that capture trimmed of surrounding whitespace.
ValueIsTrimmedCaptureOfFirstMatchingPattern ==
  SomePatternMatches =>
    IsTrimmedCaptureOf(document_text.s, field_patterns[FirstMatching(document_text.s, field_patterns)], Search(field_patterns[FirstMatching(document_text.s, field_patterns)].re, document_text.s, TRUE))

\* pattern k matches left of pattern j's match and has the higher boost
MatchesEarlierWithHigherBoost(text, ps, j, k) ==
  /\ ps[k].boost > ps[j].boost
  /\ Search(ps[k].re, text, TRUE).s < Search(ps[j].re, text, TRUE).s

\* the first pattern is used although a later pattern matches earlier in the
\* text and has a higher boost, and the match needs the case to be ignored
LaterPatternPassedOver ==
  /\ SomePatternMatches
  /\ \E k \in MatchingPatterns(document_text.s, field_patterns) :
       /\ k > FirstMatching(document_text.s, field_patterns)
       /\ MatchesEarlierWithHigherBoost(document_text.s, field_patterns, FirstMatching(document_text.s, field_patterns), k)
       /\ ~Search(field_patterns[k].re, document_text.s, FALSE).ok
  /\ heuristic.value = PyStr(<<"1","/","1","5","/","2","0","2","4">>)
  /\ heuristic.confidence = 90

\* the lowercased field name contains the word
NameHas(w) == Contains(Lower(pattern_field.field_name.s), w)

TypeIs(type) == pattern_field.field_type = PyStr(type)

\* the category of the first test that holds, in the order of the claim, the
\* date test being given
CategoryPatterns(is_date) ==
  CASE is_date -> DatePatterns
    [] ~is_date /\ (NameHas(<<"p","a","r","t","y">>) \/ NameHas(<<"p","a","r","t","i","e","s">>)) -> PartyPatterns
    [] OTHER ->
       CASE NameHas(<<"e","f","f","e","c","t","i","v","e">>) \/ NameHas(<<"t","e","r","m">>) -> EffectivePatterns
         [] OTHER ->
            CASE NameHas(<<"c","u","r","r","e","n","c","y">>) \/ NameHas(<<"a","m","o","u","n","t">>) \/ TypeIs(TypeCURRENCY) -> CurrencyPatterns
              [] OTHER ->
                 CASE NameHas(<<"l","i","a","b","l","e">>) \/ NameHas(<<"l","i","a","b","i","l","i","t","y">>) -> LiabilityPatterns
                   [] OTHER -> <<>>

\* the list is the category's patterns followed by the generic pattern of the
\* literal field name, which is its last element
DispatchedAs(category) ==
  /\ Len(field_patterns) = Len(category) + 1
  /\ SubSeq(field_patterns, 1, Len(category)) = category
  /\ field_patterns[Len(field_patterns)] = GenericPattern(pattern_field.field_name.s)

\* C26 as stated: the category is picked by the first test that holds, the
\* tests being on substrings of the lowercased field name only except for
\* the CURRENCY type test, and the generic pattern is the last element.
DispatchByNameOnly == pc # "call" => DispatchedAs(CategoryPatterns(NameHas(<<"d","a","t","e">>)))

\* C26, amended: the date test also holds when the declared type is DATE.
DispatchByNameAndType == pc # "call" => DispatchedAs(CategoryPatterns(NameHas(<<"d","a","t","e">>) \/ TypeIs(TypeDATE)))

\* a field whose name has the word of one category and whose type is that of
\* another: 'Term' declared CURRENCY gets the effective/term patterns, 'Term'
\* declared DATE the date patterns
TermFieldDispatched ==
  /\ pc # "call"
  /\ pattern_field.field_name = PyStr(TermName)
  /\ \/ TypeIs(TypeCURRENCY) /\ field_patterns = Append(EffectivePatterns, GenericPattern(TermName))
     \/ TypeIs(TypeDATE) /\ field_patterns = Append(DatePatterns, GenericPattern(TermName))

\* the review states stored for the extraction
ReviewsOf(extraction_id) == { i \in 1..Len(review_states) : review_states[i].extraction_id = extraction_id }

\* C27: between two jobs, after any extraction runs and review updates,
\* every extraction record has at most one review state, and that review
\* state's status equals the extraction's status.
OneReviewStateWithSameStatus ==
  JobIdle =>
    \A e \in 1..Len(extractions) :
      /\ Cardinality(ReviewsOf(e)) <= 1
      /\ \A i \in ReviewsOf(e) : review_states[i].status = extractions[e].status

\* the first half of C27 alone: at most one review state per extraction
AtMostOneReviewState ==
  JobIdle => \A e \in 1..Len(extractions) : Cardinality(ReviewsOf(e)) <= 1

\* the second half of C27 for the extractions that were reviewed: the status
\* of the extraction is the status of its review state created last
ReviewedStatusIsLatestReview ==
  JobIdle =>
    \A e \in 1..Len(extractions) :
      (extractions[e].status # "EXTRACTED" /\ ReviewsOf(e) # {}) => review_states[MaxOf(ReviewsOf(e))].status = extractions[e].status

\* the cells the returned table shows for the document and the field
CellsOf(document_id, field_name) ==
  { table.rows[r].document_results[document_id] : r \in { q \in 1..Len(table.rows) : table.rows[q].field_name = field_name } }

\* the value evaluate_extraction would score from the record of the cell
ShownAiValue(cell) == PyOr(cell.normalized_value, cell.extracted_value)

\* the table was generated and the evaluations were stored over the same
\* extraction records
TableAndEvaluations == TableReturned /\ table.rows # <<>> /\ evaluations # <<>>

\* C28: for every (document, field) that was evaluated, the ai_value that
\* evaluate_extraction scored is the value of the record the comparison
\* table shows in the cell of that document and field.
TableAndEvaluationUseSameRecord ==
  TableAndEvaluations =>
    \A i \in 1..Len(evaluations) :
      \A cell \in CellsOf(evaluations[i].document_id.s, evaluations[i].field_name.s) :
        evaluations[i].ai_value = ShownAiValue(cell)

\* after a single run the table and the evaluation do use the same record
SingleRunAgrees ==
  /\ TableAndEvaluations
  /\ Cardinality(TasksOfType("extract")) = 1
  /\ \E i \in 1..Len(evaluations) :
       \E cell \in CellsOf(evaluations[i].document_id.s, evaluations[i].field_name.s) :
         evaluations[i].ai_value = ShownAiValue(cell)

\* the task of the background job that has ended
EndedTask == tasks[job.task]

\* the outcome the task must show once its job has ended
TaskOutcome ==
  /\ EndedTask.status \in {"COMPLETED", "FAILED"}
  /\ EndedTask.status = "COMPLETED" => ~job.raised
  /\ job.raised => (EndedTask.status = "FAILED" /\ EndedTask.error_message # "")

\* C29: once the background job has ended its task is COMPLETED or FAILED,
\* never QUEUED or PROCESSING: COMPLETED only if no step of the job raised,
\* FAILED with an error message if any step raised.
TaskEndsCompletedOrFailed == job.phase = "ended" => TaskOutcome

\* the moves of C29: QUEUED -> PROCESSING -> COMPLETED or FAILED, and no move
\* out of COMPLETED or FAILED
StatusMoves == { <<"QUEUED", "PROCESSING">>, <<"PROCESSING", "COMPLETED">>, <<"PROCESSING", "FAILED">> }

TaskMoves ==
  \A i \in 1..Len(tasks) :
    tasks'[i].status # tasks[i].status => <<tasks[i].status, tasks'[i].status>> \in StatusMoves

TaskStatusMoves == [][TaskMoves]_vars

\* no storage failure has happened so far
NoStorageFailure == budget.faults = MaxFaults

\* the outcome and the moves of C29 as long as no storage call fails: the
\* only exception is the ValueError of a missing document
TaskOutcomeWithoutStorageFailure == (NoStorageFailure /\ job.phase = "ended") => TaskOutcome

TaskStatusMovesWithoutStorageFailure == [][(NoStorageFailure /\ NoStorageFailure') => TaskMoves]_vars

\* a job that raised 'Document not found' and whose task is FAILED with that
\* message
MissingDocumentFailsTask ==
  /\ NoStorageFailure
  /\ job.phase = "ended"
  /\ job.raised
  /\ EndedTask.status = "FAILED"
  /\ EndedTask.error_message = "Document not found"

\* the extraction record has a review state that holds its extracted value
HasReviewState(e) == \E i \in ReviewsOf(e) : review_states[i].ai_value = extractions[e].extracted_value

\* a document with the status EXTRACTED has an extraction record stored with
\* its review state
ExtractedMeansStored ==
  \A d \in DOMAIN doc_status :
    doc_status[d] = "EXTRACTED" => \E e \in 1..Len(extractions) : extractions[e].document_id = d /\ HasReviewState(e)

NoRecordWithoutReviewState == \A e \in 1..Len(extractions) : HasReviewState(e)

\* C30: a document is EXTRACTED only when its records are stored with their
\* review states, and whether a run of extract_fields_for_document returned
\* or raised, no extraction record is stored without a review state that
\* holds its extracted value.
ExtractedOnlyWhenAllStored == ExtractedMeansStored /\ NoRecordWithoutReviewState

\* a run that raises leaves every document status as it was
RaisingRunKeepsStatus == [][(job'.raised /\ ~job.raised) => doc_status' = doc_status]_vars

\* a run that raised part-way: its document is not EXTRACTED and a record of
\* it is stored
RaisedPartWay ==
  /\ job.raised
  /\ job.kind = "extract"
  /\ \E e \in 1..Len(extractions) : doc_status[extractions[e].document_id] # "EXTRACTED"

====
